---- MODULE Spec2Model ----
(***************************************************************************)
(* Model of the subscription bot: the user store (database.py), the        *)
(* per-actor FSM sessions kept by the dispatcher's MemoryStorage, the      *)
(* message and callback handlers of bot.py in their registration order,    *)
(* and the daily expiry sweep.                                             *)
(*                                                                         *)
(* Texts are sequences of one-symbol strings, so that strip, split,        *)
(* normalize_username, int() and the regular expression of the accept      *)
(* button are computed as the code computes them.  A bot command word      *)
(* ("/broadcast") is one symbol.  Time is counted in ticks, TicksPerDay    *)
(* ticks to the day; timedelta.days is the floor of ticks / TicksPerDay.   *)
(***************************************************************************)
EXTENDS Integers, Sequences, FiniteSets, TLC

VARIABLES db, fsm_state, fsm_data, now, notifs, last, tasks

vars == <<db, fsm_state, fsm_data, now, notifs, last, tasks>>

(***************************************************************************)
(* Bounds of the model.                                                    *)
(***************************************************************************)
TicksPerDay == 2
MaxTime == 2
MaxPaid == 120

(***************************************************************************)
(* Program constants.                                                      *)
(***************************************************************************)
ADMIN_CHAT_ID == 1
COST_PER_MONTH == 50
DAYS_PER_MONTH == 30

UserIds == {2, 3}
Actors == {ADMIN_CHAT_ID} \cup UserIds
NoUser == 0

(***************************************************************************)
(* Text primitives (Python str methods used by the handlers).              *)
(***************************************************************************)
Space == " "
Digits == {"0", "1", "2", "3", "4", "5", "6", "7", "8", "9"}
Letters == {"a", "b", "c", "A", "B", "C", "x", "i", "d"}
WordChars == Letters \cup Digits \cup {"_"}

DigitVal(c) ==
    CASE c = "0" -> 0 [] c = "1" -> 1 [] c = "2" -> 2 [] c = "3" -> 3
      [] c = "4" -> 4 [] c = "5" -> 5 [] c = "6" -> 6 [] c = "7" -> 7
      [] c = "8" -> 8 [] c = "9" -> 9

DigitChar(n) ==
    CASE n = 0 -> "0" [] n = 1 -> "1" [] n = 2 -> "2" [] n = 3 -> "3"
      [] n = 4 -> "4" [] n = 5 -> "5" [] n = 6 -> "6" [] n = 7 -> "7"
      [] n = 8 -> "8" [] n = 9 -> "9"

\* str(n) for a non-negative integer
RECURSIVE IntToStr(_)
IntToStr(n) ==
    IF n < 10 THEN <<DigitChar(n)>>
    ELSE Append(IntToStr(n \div 10), DigitChar(n % 10))

LowerChar(c) ==
    CASE c = "A" -> "a" [] c = "B" -> "b" [] c = "C" -> "c" [] OTHER -> c

\* str.lower()
Lower(s) == [i \in 1..Len(s) |-> LowerChar(s[i])]

\* str.lstrip(ch): drops every leading ch
RECURSIVE LStripChar(_, _)
LStripChar(s, ch) ==
    IF s # <<>> /\ Head(s) = ch THEN LStripChar(Tail(s), ch) ELSE s

RECURSIVE RStripChar(_, _)
RStripChar(s, ch) ==
    IF s # <<>> /\ s[Len(s)] = ch
    THEN RStripChar(SubSeq(s, 1, Len(s) - 1), ch)
    ELSE s

\* str.strip()
Strip(s) == RStripChar(LStripChar(s, Space), Space)

\* the leading run of non-blank symbols of s
RECURSIVE FirstWord(_)
FirstWord(s) ==
    IF s = <<>> \/ Head(s) = Space THEN <<>>
    ELSE <<Head(s)>> \o FirstWord(Tail(s))

\* str.split(): the maximal runs of non-blank symbols
RECURSIVE Split(_)
Split(s) ==
    LET t == LStripChar(s, Space)
        w == FirstWord(t)
    IN  IF t = <<>> THEN <<>>
        ELSE <<w>> \o Split(SubSeq(t, Len(w) + 1, Len(t)))

\* int(s) of a blank-free string: an optional sign, then digits only
IsIntLiteral(s) ==
    LET body == IF s # <<>> /\ Head(s) \in {"-", "+"} THEN Tail(s) ELSE s
    IN  body # <<>> /\ \A i \in 1..Len(body) : body[i] \in Digits

RECURSIVE DigitsValue(_)
DigitsValue(s) ==
    IF s = <<>> THEN 0
    ELSE 10 * DigitsValue(SubSeq(s, 1, Len(s) - 1)) + DigitVal(s[Len(s)])

ParseInt(s) ==
    IF Head(s) = "-" THEN 0 - DigitsValue(Tail(s))
    ELSE IF Head(s) = "+" THEN DigitsValue(Tail(s))
    ELSE DigitsValue(s)

normalize_username(username) == Lower(LStripChar(username, "@"))

\* f"id_{user.id}"
IdName(user_id) == <<"i", "d", "_">> \o IntToStr(user_id)

\* the leading run of \w symbols of s
RECURSIVE WordRun(_)
WordRun(s) ==
    IF s = <<>> \/ Head(s) \notin WordChars THEN <<>>
    ELSE <<Head(s)>> \o WordRun(Tail(s))

\* re.search(r'@(\w+)', s).group(1), or <<>> when there is no match
RECURSIVE RegexHandle(_)
RegexHandle(s) ==
    IF s = <<>> THEN <<>>
    ELSE IF Head(s) = "@" /\ WordRun(Tail(s)) # <<>> THEN WordRun(Tail(s))
    ELSE RegexHandle(Tail(s))

(***************************************************************************)
(* Stored dates.  expire_date is a TEXT column: NULL, the isoformat() of a *)
(* datetime, or text that fromisoformat() rejects.                         *)
(***************************************************************************)
NoDate == [kind |-> "null", t |-> 0]
BadDate == [kind |-> "text", t |-> 0]
isoformat(t) == [kind |-> "iso", t |-> t]
Parseable(d) == d.kind = "iso"
fromisoformat(d) == d.t

\* timedelta(days = n)
timedelta(days) == days * TicksPerDay
\* (a - b).days
DaysBetween(a, b) == (a - b) \div TicksPerDay

\* rub_to_days with the leftover rounded to the nearest day
rub_to_days_Rounded(amount) ==
    LET full_months == amount \div COST_PER_MONTH
        leftover_rub == amount % COST_PER_MONTH
        leftover_days == (2 * leftover_rub * DAYS_PER_MONTH + COST_PER_MONTH)
                             \div (2 * COST_PER_MONTH)
    IN  full_months * DAYS_PER_MONTH + leftover_days

rub_to_days(amount) ==
    LET full_months == amount \div COST_PER_MONTH
        leftover_rub == amount % COST_PER_MONTH
        leftover_days == (leftover_rub * DAYS_PER_MONTH) \div COST_PER_MONTH
    IN  full_months * DAYS_PER_MONTH + leftover_days

(***************************************************************************)
(* User store (database.py).  db maps the user_id of every row of the      *)
(* users table to its remaining columns.                                   *)
(***************************************************************************)
\* NewRow that starts a record with a trial day
NewRow_Trial(username, parent_user_id) ==
    [username |-> username, expire_date |-> isoformat(TicksPerDay), total_paid |-> 0,
     parent_user_id |-> parent_user_id]

NewRow(username, parent_user_id) ==
    [username |-> username, expire_date |-> NoDate, total_paid |-> 0,
     parent_user_id |-> parent_user_id]

\* SELECT ... WHERE user_id = ?  (NoUser when there is no row)
get_user(store, user_id) ==
    IF user_id \in DOMAIN store THEN user_id ELSE NoUser

\* SELECT ... WHERE username = ?  (username is UNIQUE: at most one row)
get_user_by_username(store, username) ==
    IF \E u \in DOMAIN store : store[u].username = username
    THEN CHOOSE u \in DOMAIN store : store[u].username = username
    ELSE NoUser

\* INSERT; an IntegrityError (user_id or username taken) is logged and dropped
add_user(store, user_id, username) ==
    IF user_id \in DOMAIN store
       \/ \E u \in DOMAIN store : store[u].username = username
    THEN store
    ELSE [u \in DOMAIN store \cup {user_id} |->
            IF u = user_id THEN NewRow(username, NoUser) ELSE store[u]]

\* UPDATE users SET expire_date = ? WHERE user_id = ?
update_expire_date(store, user_id, expire_date) ==
    IF user_id \in DOMAIN store
    THEN [store EXCEPT ![user_id].expire_date = expire_date]
    ELSE store

\* update_total_paid that stores the amount instead of adding it
update_total_paid_Overwrite(store, user_id, amount) ==
    IF user_id \in DOMAIN store
    THEN [store EXCEPT ![user_id].total_paid = amount]
    ELSE store

\* UPDATE users SET total_paid = total_paid + ? WHERE user_id = ?
update_total_paid(store, user_id, amount) ==
    IF user_id \in DOMAIN store
    THEN [store EXCEPT ![user_id].total_paid = @ + amount]
    ELSE store

\* SELECT ... FROM users: the rows in rowid (= user_id) order
RECURSIVE SortedIds(_)
SortedIds(S) ==
    IF S = {} THEN <<>>
    ELSE LET m == CHOOSE x \in S : \A y \in S : x <= y
         IN  <<m>> \o SortedIds(S \ {m})

get_all_users(store) == SortedIds(DOMAIN store)

(***************************************************************************)
(* Subscription status as the handlers compute it.                         *)
(***************************************************************************)
\* expire_date_str and fromisoformat(expire_date_str) > datetime.now(),
\* with the ValueError of an unparseable date caught
OwnActive(store, u, t) ==
    /\ Parseable(store[u].expire_date)
    /\ fromisoformat(store[u].expire_date) > t

\* EffectiveActive that follows the chain of parents to any depth
RECURSIVE EffectiveActive_Ancestors(_, _, _)
EffectiveActive_Ancestors(store, u, t) ==
    \/ OwnActive(store, u, t)
    \/ /\ store[u].parent_user_id # NoUser
       /\ get_user(store, store[u].parent_user_id) # NoUser
       /\ EffectiveActive_Ancestors(store, store[u].parent_user_id, t)

\* cmd_check / handle_check_subscription: own subscription, else the
\* immediate parent's
EffectiveActive(store, u, t) ==
    \/ OwnActive(store, u, t)
    \/ /\ store[u].parent_user_id # NoUser
       /\ get_user(store, store[u].parent_user_id) # NoUser
       /\ OwnActive(store, store[u].parent_user_id, t)

(***************************************************************************)
(* Sessions (FSMContext over MemoryStorage): a state and a data dict per   *)
(* actor.  The state names are those of AdminStates and UserStates; the    *)
(* file-choice state is AdminStates.awaiting_file and the state waiting    *)
(* for the attachment is AdminStates.awaiting_file_with_file.              *)
(***************************************************************************)
NoState == "None"
AdminStates ==
    {"waiting_for_reset_username", "waiting_for_gift_subscription",
     "waiting_for_send_message", "waiting_for_broadcast_text",
     "awaiting_file", "awaiting_file_with_file"}
UserStates == {"waiting_for_custom_amount"}

NoText == <<>>
EmptyData == [action |-> "None", target_user_id |-> NoUser, message_text |-> NoText]

\* set_state on a storage that keeps one state for all actors
set_state_Shared(states, a, s) == [b \in DOMAIN states |-> s]

\* state.set_state(s): the data dict is kept
set_state(states, a, s) == [states EXCEPT ![a] = s]
\* state.update_data(action=..., target_user_id=...)
update_data_target(data, a, action, uid) ==
    [data EXCEPT ![a].action = action, ![a].target_user_id = uid]
\* update_data(message_text=...) that keeps only what follows the first word,
\* as a handler that reads "<handle> <text>" would
update_data_text_AfterHandle(data, a, text) ==
    [data EXCEPT ![a].message_text =
        Strip(SubSeq(text, Len(FirstWord(text)) + 1, Len(text)))]

\* state.update_data(message_text=...)
update_data_text(data, a, text) == [data EXCEPT ![a].message_text = text]
\* state.clear(): the state and the data dict are both dropped
clear_state(states, a) == [states EXCEPT ![a] = NoState]
clear_data(data, a) == [data EXCEPT ![a] = EmptyData]

(***************************************************************************)
(* Inbound events.  A message carries a content type and, when it is a     *)
(* text message, its text (message.text is None otherwise).  A callback    *)
(* carries its callback_data and the text of the message its button hangs  *)
(* on.  src is history only: the actor whose /start produced that message. *)
(***************************************************************************)
Commands ==
    {"/start", "/check", "/check_users", "/sum_payments", "/reset_subscription",
     "/gift_subscription", "/send_message", "/broadcast"}
AdminCommands == Commands \ {"/start", "/check"}

TextMessage(t) == [kind |-> "message", ct |-> "text", text |-> t, src |-> NoUser]
Attachment(ct) == [kind |-> "message", ct |-> ct, text |-> NoText, src |-> NoUser]
Callback(data, text, src) == [kind |-> "callback", ct |-> data, text |-> text, src |-> src]
TimerEvent == [kind |-> "timer", ct |-> "cron", text |-> NoText, src |-> NoUser]

\* The inputs tried on each handler that reads a message
StartInputs == {TextMessage(<<"/start">>)}
CheckInputs == {TextMessage(<<"/check">>)}
CommandInputs == {TextMessage(<<c>>) : c \in AdminCommands}
FileInputs == {Attachment("document"), Attachment("photo")}
AmountInputs ==
    {TextMessage(<<"7", "0">>), TextMessage(<<"0">>), TextMessage(<<"x">>),
     TextMessage(<<"/broadcast">>)}
SendMessageInputs ==
    {TextMessage(<<"x">>), TextMessage(<<"@", "A", " ", "1">>),
     TextMessage(<<"i", "d", "_", "3", " ", "2">>),
     TextMessage(<<"/broadcast">>), Attachment("photo")}
ResetInputs ==
    {TextMessage(<<"@", "A">>), TextMessage(<<"x">>), Attachment("photo")}
GiftInputs ==
    {TextMessage(<<"@", "A", " ", "1">>), TextMessage(<<"i", "d", "_", "3", " ", "2">>),
     TextMessage(<<"@", "A", " ", "-", "5">>), TextMessage(<<"@", "A", " ", "x">>),
     TextMessage(<<"@", "A">>), TextMessage(<<"@", "A", " ", "1", " ", "2">>),
     Attachment("photo")}
BroadcastInputs == {TextMessage(<<"x">>), Attachment("photo")}

\* Command("name"): the first word of a text message is the command
IsCommand(m, c) == m.ct = "text" /\ m.text # <<>> /\ Head(m.text) = c

\* The Telegram username an actor carries when an event of theirs arrives
\* (<<>> : no username set).  A username is free to be taken by another
\* account once its holder has changed theirs.
TgUsernames(a) ==
    IF a = 2 THEN {<<"A">>} ELSE IF a = 3 THEN {<<"A">>, <<>>} ELSE {<<"C">>}

(***************************************************************************)
(* What a handler did: the handler, the actor and event it ran for, the    *)
(* answer given to the actor, the messages it tried to send to other       *)
(* chats in order (ok: whether the transport accepted it), and the         *)
(* exception that left the handler, if any.                                *)
(***************************************************************************)
Send(to, kind, text, ok) == [to |-> to, kind |-> kind, text |-> text, ok |-> ok]

Ran(op, a, ev) ==
    [op |-> op, actor |-> a, ev |-> ev, reply |-> "none", days |-> 0,
     sent |-> <<>>, raised |-> "None", success |-> 0, selected |-> {},
     total |-> 0]

\* Results of one bot.send_message / send_document as the handlers tell
\* them apart: delivered, TelegramBadRequest, or another exception of the
\* transport (TelegramForbiddenError when the user blocked the bot, ...)
Deliveries == {"ok", "TelegramBadRequest", "TelegramForbiddenError"}

(***************************************************************************)
(* The users table outlives the process (init_db creates it only if it is  *)
(* missing).  The bot starts on an empty table or on rows of earlier runs; *)
(* parent_user_id and a malformed expire_date are written by no handler,   *)
(* so rows that carry them come from outside.                              *)
(***************************************************************************)
EmptyStore == [u \in {} |-> NewRow(<<>>, NoUser)]

Soon == isoformat(1)
Tomorrow == isoformat(timedelta(1))

\* Rows of earlier runs: user 3 is a child of user 2, user 2 a child of the
\* admin's own row
FamilyStore(e) ==
    [u \in Actors |->
        [username |-> IF u = 2 THEN <<"a">> ELSE IF u = 3 THEN IdName(3) ELSE <<"c">>,
         expire_date |-> e[u],
         total_paid |-> 0,
         parent_user_id |-> IF u = 3 THEN 2 ELSE IF u = 2 THEN ADMIN_CHAT_ID ELSE NoUser]]

\* expire_date of the admin's row, of user 2's and of user 3's
StoredDates ==
    { <<Tomorrow, Tomorrow, Tomorrow>>, <<Tomorrow, NoDate, NoDate>>,
      <<NoDate, Tomorrow, NoDate>>, <<NoDate, BadDate, Tomorrow>>,
      <<NoDate, Soon, Tomorrow>> }

FamilyStores ==
    {FamilyStore([u \in Actors |-> IF u = ADMIN_CHAT_ID THEN e[1]
                                   ELSE IF u = 2 THEN e[2] ELSE e[3]]) : e \in StoredDates}

Idle == last.op = "idle"

InitWith(stores) ==
    /\ db \in stores
    /\ fsm_state = [a \in Actors |-> NoState]
    /\ fsm_data = [a \in Actors |-> EmptyData]
    /\ now = 0
    /\ notifs = {}
    /\ last = Ran("idle", NoUser, TimerEvent)
    /\ tasks = <<>>

\* An exception left a handler of the router.  The sweep is a job of the
\* scheduler (line 800), not a handler of the router: what leaves it is
\* logged by the scheduler and does not reach the router's error handler.
Escaped ==
    /\ last.raised # "None"
    /\ last.op # "check_subscriptions_expiring"

global_error_handler_Silent(notified) ==
    /\ Escaped
    /\ last' = [Ran("global_error_handler", last.actor, last.ev) EXCEPT
                  !.reply = last.raised]
    /\ UNCHANGED <<db, fsm_state, fsm_data, now, notifs>>
    /\ UNCHANGED tasks

\* @router.errors(): the dispatcher passes the exception that left a handler
\* to the error handler, which reports it through notify_admin (notified:
\* whether the admin chat took the message; notify_admin swallows the
\* failure), logs it and returns True.
global_error_handler(notified) ==
    /\ Escaped
    /\ last' = [Ran("global_error_handler", last.actor, last.ev) EXCEPT
                  !.reply = last.raised,
                  !.sent = <<Send(ADMIN_CHAT_ID, "error_report", NoText, notified)>>]
    /\ UNCHANGED <<db, fsm_state, fsm_data, now, notifs>>
    /\ UNCHANGED tasks

\* The dispatcher is done with the update and polls for the next one
UpdateHandled ==
    /\ ~Idle
    /\ ~Escaped
    /\ last' = Ran("idle", NoUser, TimerEvent)
    /\ UNCHANGED <<db, fsm_state, fsm_data, now, notifs>>
    /\ UNCHANGED tasks

\* datetime.now() moves on between events
Tick ==
    /\ Idle
    /\ now < MaxTime
    /\ now' = now + 1
    /\ UNCHANGED <<db, fsm_state, fsm_data, notifs, last>>
    /\ UNCHANGED tasks

(***************************************************************************)
(* Routing of a message: the first handler, in registration order, whose   *)
(* filters pass.  A handler with no StateFilter passes in every state.     *)
(* Both process_send_message handlers (lines 611 and 636) carry the filter *)
(* of admin_send_message (line 421), which is registered first: they are   *)
(* never chosen.                                                           *)
(***************************************************************************)
Route(a, m) ==
    IF IsCommand(m, "/start") THEN "cmd_start"
    ELSE IF IsCommand(m, "/check") THEN "cmd_check"
    ELSE IF fsm_state[a] = "waiting_for_send_message" THEN "admin_send_message"
    ELSE IF fsm_state[a] = "awaiting_file_with_file" /\ m.ct \in {"document", "photo"}
         THEN "handle_admin_file"
    ELSE IF fsm_state[a] = "waiting_for_custom_amount" /\ m.ct = "text"
         THEN "process_user_custom_amount"
    ELSE IF IsCommand(m, "/check_users") THEN "admin_check_users"
    ELSE IF IsCommand(m, "/sum_payments") THEN "admin_sum_payments"
    ELSE IF IsCommand(m, "/reset_subscription") THEN "admin_reset_subscription_command"
    ELSE IF IsCommand(m, "/gift_subscription") THEN "admin_gift_subscription_command"
    ELSE IF IsCommand(m, "/send_message") THEN "admin_send_message_command"
    ELSE IF IsCommand(m, "/broadcast") THEN "admin_broadcast_command"
    ELSE IF fsm_state[a] = "waiting_for_reset_username" THEN "process_reset_subscription"
    ELSE IF fsm_state[a] = "waiting_for_gift_subscription" THEN "process_gift_subscription"
    ELSE IF fsm_state[a] = "waiting_for_broadcast_text" THEN "process_broadcast_text"
    ELSE "unhandled"

(***************************************************************************)
(* User commands and buttons.                                              *)
(***************************************************************************)
\* the "Новый пользователь @... запросил подключение VPN." notification
RequestText(normalized_username) ==
    <<"N", " ", "@">> \o normalized_username \o <<" ", "r", ".">>

\* The answer of cmd_start, cmd_check and handle_check_subscription on the
\* subscription of a registered user
CheckReply(store, u, t) ==
    IF OwnActive(store, u, t) THEN "active"
    ELSE IF EffectiveActive(store, u, t) THEN "active_via_parent"
    ELSE "inactive"

CheckDays(store, u, t) ==
    IF OwnActive(store, u, t)
    THEN DaysBetween(fromisoformat(store[u].expire_date), t)
    ELSE IF EffectiveActive(store, u, t)
    THEN DaysBetween(fromisoformat(store[store[u].parent_user_id].expire_date), t)
    ELSE 0

cmd_start(a, m, tg, notified) ==
    /\ Idle
    /\ Route(a, m) = "cmd_start"
    /\ LET normalized_username ==
               IF tg # <<>> THEN normalize_username(tg) ELSE IdName(a)
           r == Ran("cmd_start", a, m)
       IN  IF a = ADMIN_CHAT_ID
           THEN /\ last' = [r EXCEPT !.reply = "admin_greeting"]
                /\ UNCHANGED <<db, notifs>>
           ELSE IF get_user(db, a) = NoUser
           THEN /\ db' = add_user(db, a, normalized_username)
                /\ notifs' = IF notified
                             THEN notifs \cup
                                    {[src |-> a, text |-> RequestText(normalized_username)]}
                             ELSE notifs
                /\ last' = [r EXCEPT
                              !.reply = "welcome",
                              !.sent = <<Send(ADMIN_CHAT_ID, "request",
                                              RequestText(normalized_username), notified)>>]
           ELSE /\ last' = [r EXCEPT
                              !.reply = IF OwnActive(db, a, now) THEN "active" ELSE "menu",
                              !.days = IF OwnActive(db, a, now)
                                       THEN DaysBetween(fromisoformat(db[a].expire_date), now)
                                       ELSE 0]
                /\ UNCHANGED <<db, notifs>>
    /\ UNCHANGED <<fsm_state, fsm_data, now>>
    /\ UNCHANGED tasks

cmd_check(a, m) ==
    /\ Idle
    /\ Route(a, m) = "cmd_check"
    /\ LET r == Ran("cmd_check", a, m)
       IN  last' = IF get_user(db, a) = NoUser THEN [r EXCEPT !.reply = "not_registered"]
                   ELSE IF a = ADMIN_CHAT_ID THEN [r EXCEPT !.reply = "admin_greeting"]
                   ELSE [r EXCEPT !.reply = CheckReply(db, a, now),
                                  !.days = CheckDays(db, a, now)]
    /\ UNCHANGED <<db, fsm_state, fsm_data, now, notifs>>
    /\ UNCHANGED tasks

handle_check_subscription(a) ==
    /\ Idle
    /\ LET r == Ran("handle_check_subscription", a, Callback("check_subscription", NoText, NoUser))
       IN  last' = IF get_user(db, a) = NoUser THEN [r EXCEPT !.reply = "not_registered"]
                   ELSE [r EXCEPT !.reply = CheckReply(db, a, now),
                                  !.days = CheckDays(db, a, now)]
    /\ UNCHANGED <<db, fsm_state, fsm_data, now, notifs>>
    /\ UNCHANGED tasks

\* handle_pay_standard that adds the 30 days to a running subscription
handle_pay_standard_Stacking(a) ==
    /\ Idle
    /\ a \in DOMAIN db => db[a].total_paid + COST_PER_MONTH <= MaxPaid
    /\ LET amount == COST_PER_MONTH
           from == IF a \in DOMAIN db /\ OwnActive(db, a, now)
                   THEN fromisoformat(db[a].expire_date) ELSE now
           new_expire_date == from + timedelta(DAYS_PER_MONTH)
       IN  db' = update_total_paid(
                     update_expire_date(db, a, isoformat(new_expire_date)), a, amount)
    /\ last' = [Ran("handle_pay_standard", a, Callback("pay_standard", NoText, NoUser))
                  EXCEPT !.reply = "payment_confirmed"]
    /\ UNCHANGED <<fsm_state, fsm_data, now, notifs>>
    /\ UNCHANGED tasks

\* The button press counts as the payment: 30 days from now, 50 paid
handle_pay_standard(a) ==
    /\ Idle
    /\ a \in DOMAIN db => db[a].total_paid + COST_PER_MONTH <= MaxPaid
    /\ LET amount == COST_PER_MONTH
           new_expire_date == now + timedelta(DAYS_PER_MONTH)
       IN  db' = update_total_paid(
                     update_expire_date(db, a, isoformat(new_expire_date)), a, amount)
    /\ last' = [Ran("handle_pay_standard", a, Callback("pay_standard", NoText, NoUser))
                  EXCEPT !.reply = "payment_confirmed"]
    /\ UNCHANGED <<fsm_state, fsm_data, now, notifs>>
    /\ UNCHANGED tasks

handle_pay_custom_amount(a) ==
    /\ Idle
    /\ fsm_state' = set_state(fsm_state, a, "waiting_for_custom_amount")
    /\ last' = [Ran("handle_pay_custom_amount", a, Callback("pay_custom_amount", NoText, NoUser))
                  EXCEPT !.reply = "enter_amount"]
    /\ UNCHANGED <<db, fsm_data, now, notifs>>
    /\ UNCHANGED tasks

process_user_custom_amount(a, m) ==
    /\ Idle
    /\ Route(a, m) = "process_user_custom_amount"
    /\ LET text == Strip(m.text)
           valid == IsIntLiteral(text) /\ ParseInt(text) >= 1
           r == Ran("process_user_custom_amount", a, m)
       IN  IF ~valid
           THEN /\ last' = [r EXCEPT !.reply = "reprompt"]
                /\ UNCHANGED <<db, fsm_state, fsm_data>>
           ELSE LET amount == ParseInt(text)
                    days == rub_to_days(amount)
                    new_expire_date == now + timedelta(days)
                IN  /\ a \in DOMAIN db => db[a].total_paid + amount <= MaxPaid
                    /\ db' = update_total_paid(
                                 update_expire_date(db, a, isoformat(new_expire_date)),
                                 a, amount)
                    /\ fsm_state' = clear_state(fsm_state, a)
                    /\ fsm_data' = clear_data(fsm_data, a)
                    /\ last' = [r EXCEPT !.reply = "payment_confirmed"]
    /\ UNCHANGED <<now, notifs>>
    /\ UNCHANGED tasks

(***************************************************************************)
(* Accept / reject buttons of a connection request.                        *)
(***************************************************************************)
\* What a try: bot.send_message(...) except TelegramBadRequest lets out
EscapesBadRequestGuard(delivery) == delivery \notin {"ok", "TelegramBadRequest"}

RaisedBy(delivery) == IF EscapesBadRequestGuard(delivery) THEN delivery ELSE "None"

handle_admin_accept(a, n, delivery) ==
    /\ Idle
    /\ LET ev == Callback("admin_accept", n.text, n.src)
           r == Ran("handle_admin_accept", a, ev)
           username == Lower(RegexHandle(n.text))
           user_id == get_user_by_username(db, username)
       IN  /\ IF RegexHandle(n.text) = <<>>
              THEN /\ last' = [r EXCEPT !.reply = "cannot_determine_user"]
                   /\ UNCHANGED <<fsm_state, fsm_data>>
              ELSE IF user_id = NoUser
              THEN /\ last' = [r EXCEPT !.reply = "not_found"]
                   /\ UNCHANGED <<fsm_state, fsm_data>>
              ELSE /\ fsm_data' = update_data_target(fsm_data, a, "send_message", user_id)
                   /\ fsm_state' = set_state(fsm_state, a, "waiting_for_send_message")
                   /\ last' = [r EXCEPT
                                 !.reply = "enter_message",
                                 !.sent = <<Send(user_id, "approved", NoText, delivery = "ok")>>,
                                 !.raised = RaisedBy(delivery)]
           /\ UNCHANGED <<db, now, notifs>>
    /\ UNCHANGED tasks

handle_admin_reject(a, n, delivery) ==
    /\ Idle
    /\ LET ev == Callback("admin_reject", n.text, n.src)
           r == Ran("handle_admin_reject", a, ev)
           username == Lower(RegexHandle(n.text))
           user_id == get_user_by_username(db, username)
       IN  /\ last' = IF RegexHandle(n.text) = <<>>
                      THEN [r EXCEPT !.reply = "cannot_determine_user"]
                      ELSE IF user_id = NoUser THEN [r EXCEPT !.reply = "not_found"]
                      ELSE [r EXCEPT
                              !.reply = IF EscapesBadRequestGuard(delivery)
                                        THEN "none" ELSE "rejected",
                              !.sent = <<Send(user_id, "rejected", NoText, delivery = "ok")>>,
                              !.raised = RaisedBy(delivery)]
           /\ UNCHANGED <<db, fsm_state, fsm_data, now, notifs>>
    /\ UNCHANGED tasks

(***************************************************************************)
(* The send-message workflow.                                              *)
(***************************************************************************)
admin_send_message(a, m) ==
    /\ Idle
    /\ Route(a, m) = "admin_send_message"
    /\ LET r == Ran("admin_send_message", a, m)
           text == Strip(m.text)
       IN  IF m.ct # "text"
           THEN \* message.text is None: None.strip()
                /\ last' = [r EXCEPT !.raised = "AttributeError"]
                /\ UNCHANGED <<fsm_state, fsm_data>>
           ELSE IF text = <<>>
           THEN /\ last' = [r EXCEPT !.reply = "reprompt"]
                /\ UNCHANGED <<fsm_state, fsm_data>>
           ELSE /\ fsm_data' = update_data_text(fsm_data, a, text)
                /\ fsm_state' = set_state(fsm_state, a, "awaiting_file")
                /\ last' = [r EXCEPT !.reply = "ask_file"]
    /\ UNCHANGED <<db, now, notifs>>
    /\ UNCHANGED tasks

handle_send_file_yes(a) ==
    /\ Idle
    /\ LET r == Ran("handle_send_file_yes", a, Callback("send_file_yes", NoText, NoUser))
       IN  IF fsm_data[a].action # "send_message"
           THEN /\ last' = [r EXCEPT !.reply = "no_action"]
                /\ UNCHANGED fsm_state
           ELSE /\ fsm_state' = set_state(fsm_state, a, "awaiting_file_with_file")
                /\ last' = [r EXCEPT !.reply = "send_the_file"]
    /\ UNCHANGED <<db, fsm_data, now, notifs>>
    /\ UNCHANGED tasks

handle_send_file_no(a, delivery) ==
    /\ Idle
    /\ LET r == Ran("handle_send_file_no", a, Callback("send_file_no", NoText, NoUser))
           target_user_id == fsm_data[a].target_user_id
           message_text == fsm_data[a].message_text
       IN  IF fsm_data[a].action # "send_message"
           THEN /\ last' = [r EXCEPT !.reply = "no_action"]
                /\ UNCHANGED <<fsm_state, fsm_data>>
           ELSE /\ last' = [r EXCEPT
                              !.reply = IF delivery = "ok" THEN "message_sent"
                                        ELSE IF delivery = "TelegramBadRequest"
                                        THEN "message_not_sent" ELSE "none",
                              !.sent = <<Send(target_user_id, "text", message_text,
                                              delivery = "ok")>>,
                              !.raised = RaisedBy(delivery)]
                /\ IF EscapesBadRequestGuard(delivery)
                   THEN UNCHANGED <<fsm_state, fsm_data>>
                   ELSE /\ fsm_state' = clear_state(fsm_state, a)
                        /\ fsm_data' = clear_data(fsm_data, a)
    /\ UNCHANGED <<db, now, notifs>>
    /\ UNCHANGED tasks

\* handle_admin_file with the session cleared on a successful delivery only
handle_admin_file_KeepsSessionOnFailure(a, m, delivery) ==
    /\ Idle
    /\ Route(a, m) = "handle_admin_file"
    /\ LET r == Ran("handle_admin_file", a, m)
       IN  IF fsm_data[a].action # "send_message"
           THEN /\ last' = [r EXCEPT !.reply = "no_action"]
                /\ UNCHANGED <<fsm_state, fsm_data>>
           ELSE /\ last' = [r EXCEPT
                              !.reply = IF delivery = "ok" THEN "file_sent" ELSE "file_not_sent",
                              !.sent = <<Send(fsm_data[a].target_user_id, m.ct,
                                              fsm_data[a].message_text, delivery = "ok")>>]
                /\ IF delivery = "ok"
                   THEN /\ fsm_state' = clear_state(fsm_state, a)
                        /\ fsm_data' = clear_data(fsm_data, a)
                   ELSE UNCHANGED <<fsm_state, fsm_data>>
    /\ UNCHANGED <<db, now, notifs>>
    /\ UNCHANGED tasks

\* send_document is guarded by except Exception: every failure is caught
handle_admin_file(a, m, delivery) ==
    /\ Idle
    /\ Route(a, m) = "handle_admin_file"
    /\ LET r == Ran("handle_admin_file", a, m)
       IN  IF fsm_data[a].action # "send_message"
           THEN /\ last' = [r EXCEPT !.reply = "no_action"]
                /\ UNCHANGED <<fsm_state, fsm_data>>
           ELSE /\ last' = [r EXCEPT
                              !.reply = IF delivery = "ok" THEN "file_sent" ELSE "file_not_sent",
                              !.sent = <<Send(fsm_data[a].target_user_id, m.ct,
                                              fsm_data[a].message_text, delivery = "ok")>>]
                /\ fsm_state' = clear_state(fsm_state, a)
                /\ fsm_data' = clear_data(fsm_data, a)
    /\ UNCHANGED <<db, now, notifs>>
    /\ UNCHANGED tasks

(***************************************************************************)
(* Admin commands.  Each answers a non-admin with the denial and returns;  *)
(* for the admin, set_state opens the workflow.                            *)
(***************************************************************************)
RECURSIVE SumPaid(_, _)
SumPaid(store, ids) ==
    IF ids = <<>> THEN 0 ELSE store[Head(ids)].total_paid + SumPaid(store, Tail(ids))

admin_check_users(a, m) ==
    /\ Idle
    /\ Route(a, m) = "admin_check_users"
    /\ LET r == Ran("admin_check_users", a, m)
       IN  last' = IF a # ADMIN_CHAT_ID THEN [r EXCEPT !.reply = "denied"]
                   ELSE [r EXCEPT !.reply = "user_list",
                                  !.selected = {u \in DOMAIN db : OwnActive(db, u, now)}]
    /\ UNCHANGED <<db, fsm_state, fsm_data, now, notifs>>
    /\ UNCHANGED tasks

admin_sum_payments(a, m) ==
    /\ Idle
    /\ Route(a, m) = "admin_sum_payments"
    /\ LET r == Ran("admin_sum_payments", a, m)
       IN  last' = IF a # ADMIN_CHAT_ID THEN [r EXCEPT !.reply = "denied"]
                   ELSE [r EXCEPT !.reply = "sum",
                                  !.total = SumPaid(db, get_all_users(db))]
    /\ UNCHANGED <<db, fsm_state, fsm_data, now, notifs>>
    /\ UNCHANGED tasks

admin_reset_subscription_command(a, m) ==
    /\ Idle
    /\ Route(a, m) = "admin_reset_subscription_command"
    /\ IF a # ADMIN_CHAT_ID
       THEN /\ last' = [Ran("admin_reset_subscription_command", a, m) EXCEPT !.reply = "denied"]
            /\ UNCHANGED fsm_state
       ELSE /\ fsm_state' = set_state(fsm_state, a, "waiting_for_reset_username")
            /\ last' = [Ran("admin_reset_subscription_command", a, m) EXCEPT !.reply = "prompt"]
    /\ UNCHANGED <<db, fsm_data, now, notifs>>
    /\ UNCHANGED tasks

admin_gift_subscription_command(a, m) ==
    /\ Idle
    /\ Route(a, m) = "admin_gift_subscription_command"
    /\ IF a # ADMIN_CHAT_ID
       THEN /\ last' = [Ran("admin_gift_subscription_command", a, m) EXCEPT !.reply = "denied"]
            /\ UNCHANGED fsm_state
       ELSE /\ fsm_state' = set_state(fsm_state, a, "waiting_for_gift_subscription")
            /\ last' = [Ran("admin_gift_subscription_command", a, m) EXCEPT !.reply = "prompt"]
    /\ UNCHANGED <<db, fsm_data, now, notifs>>
    /\ UNCHANGED tasks

admin_send_message_command(a, m) ==
    /\ Idle
    /\ Route(a, m) = "admin_send_message_command"
    /\ IF a # ADMIN_CHAT_ID
       THEN /\ last' = [Ran("admin_send_message_command", a, m) EXCEPT !.reply = "denied"]
            /\ UNCHANGED fsm_state
       ELSE /\ fsm_state' = set_state(fsm_state, a, "waiting_for_send_message")
            /\ last' = [Ran("admin_send_message_command", a, m) EXCEPT !.reply = "prompt"]
    /\ UNCHANGED <<db, fsm_data, now, notifs>>
    /\ UNCHANGED tasks

admin_broadcast_command(a, m) ==
    /\ Idle
    /\ Route(a, m) = "admin_broadcast_command"
    /\ IF a # ADMIN_CHAT_ID
       THEN /\ last' = [Ran("admin_broadcast_command", a, m) EXCEPT !.reply = "denied"]
            /\ UNCHANGED fsm_state
       ELSE /\ fsm_state' = set_state(fsm_state, a, "waiting_for_broadcast_text")
            /\ last' = [Ran("admin_broadcast_command", a, m) EXCEPT !.reply = "prompt"]
    /\ UNCHANGED <<db, fsm_data, now, notifs>>
    /\ UNCHANGED tasks

(***************************************************************************)
(* Reset and gift.  notify_admin logs and swallows its own failures (lines *)
(* 104-107); the report lines it sends for a reset, a gift or a broadcast  *)
(* are not tracked.                                                        *)
(***************************************************************************)
\* process_reset_subscription that leaves the workflow open on an unknown
\* handle
process_reset_subscription_RepromptsUnknown(a, m, delivery) ==
    /\ Idle
    /\ Route(a, m) = "process_reset_subscription"
    /\ LET r == Ran("process_reset_subscription", a, m)
           username == normalize_username(Strip(m.text))
           user_id == get_user_by_username(db, username)
       IN  IF m.ct # "text"
           THEN /\ last' = [r EXCEPT !.raised = "AttributeError"]
                /\ UNCHANGED <<db, fsm_state, fsm_data>>
           ELSE IF user_id = NoUser
           THEN /\ last' = [r EXCEPT !.reply = "not_found"]
                /\ UNCHANGED <<db, fsm_state, fsm_data>>
           ELSE /\ db' = update_total_paid(update_expire_date(db, user_id, NoDate), user_id, 0)
                /\ last' = [r EXCEPT
                              !.reply = "reset_done",
                              !.selected = {user_id},
                              !.sent = <<Send(user_id, "reset_notice", NoText, delivery = "ok")>>,
                              !.raised = RaisedBy(delivery)]
                /\ IF EscapesBadRequestGuard(delivery)
                   THEN UNCHANGED <<fsm_state, fsm_data>>
                   ELSE /\ fsm_state' = clear_state(fsm_state, a)
                        /\ fsm_data' = clear_data(fsm_data, a)
    /\ UNCHANGED <<now, notifs>>
    /\ UNCHANGED tasks

process_reset_subscription(a, m, delivery) ==
    /\ Idle
    /\ Route(a, m) = "process_reset_subscription"
    /\ LET r == Ran("process_reset_subscription", a, m)
           username == normalize_username(Strip(m.text))
           user_id == get_user_by_username(db, username)
       IN  IF m.ct # "text"
           THEN /\ last' = [r EXCEPT !.raised = "AttributeError"]
                /\ UNCHANGED <<db, fsm_state, fsm_data>>
           ELSE IF user_id = NoUser
           THEN /\ last' = [r EXCEPT !.reply = "not_found"]
                /\ fsm_state' = clear_state(fsm_state, a)
                /\ fsm_data' = clear_data(fsm_data, a)
                /\ UNCHANGED db
           ELSE /\ db' = update_total_paid(update_expire_date(db, user_id, NoDate), user_id, 0)
                /\ last' = [r EXCEPT
                              !.reply = "reset_done",
                              !.selected = {user_id},
                              !.sent = <<Send(user_id, "reset_notice", NoText, delivery = "ok")>>,
                              !.raised = RaisedBy(delivery)]
                /\ IF EscapesBadRequestGuard(delivery)
                   THEN UNCHANGED <<fsm_state, fsm_data>>
                   ELSE /\ fsm_state' = clear_state(fsm_state, a)
                        /\ fsm_data' = clear_data(fsm_data, a)
    /\ UNCHANGED <<now, notifs>>
    /\ UNCHANGED tasks

\* process_gift_subscription without the days < 1 check
process_gift_subscription_AnyDays(a, m, delivery) ==
    /\ Idle
    /\ Route(a, m) = "process_gift_subscription"
    /\ LET r == Ran("process_gift_subscription", a, m)
           parts == Split(Strip(m.text))
           valid == /\ Len(parts) = 2
                    /\ IsIntLiteral(parts[2])
           days == ParseInt(parts[2])
           username == normalize_username(parts[1])
           user_id == get_user_by_username(db, username)
           new_expire_date == now + timedelta(days)
       IN  IF m.ct # "text"
           THEN /\ last' = [r EXCEPT !.raised = "AttributeError"]
                /\ UNCHANGED <<db, fsm_state, fsm_data>>
           ELSE IF ~valid
           THEN /\ last' = [r EXCEPT !.reply = "reprompt"]
                /\ UNCHANGED <<db, fsm_state, fsm_data>>
           ELSE IF user_id = NoUser
           THEN /\ last' = [r EXCEPT !.reply = "not_found"]
                /\ fsm_state' = clear_state(fsm_state, a)
                /\ fsm_data' = clear_data(fsm_data, a)
                /\ UNCHANGED db
           ELSE /\ db' = update_total_paid(
                             update_expire_date(db, user_id, isoformat(new_expire_date)),
                             user_id, 0)
                /\ last' = [r EXCEPT
                              !.reply = "gift_done",
                              !.days = days,
                              !.selected = {user_id},
                              !.sent = <<Send(user_id, "gift_notice", NoText, delivery = "ok")>>,
                              !.raised = RaisedBy(delivery)]
                /\ IF EscapesBadRequestGuard(delivery)
                   THEN UNCHANGED <<fsm_state, fsm_data>>
                   ELSE /\ fsm_state' = clear_state(fsm_state, a)
                        /\ fsm_data' = clear_data(fsm_data, a)
    /\ UNCHANGED <<now, notifs>>
    /\ UNCHANGED tasks

process_gift_subscription(a, m, delivery) ==
    /\ Idle
    /\ Route(a, m) = "process_gift_subscription"
    /\ LET r == Ran("process_gift_subscription", a, m)
           parts == Split(Strip(m.text))
           valid == /\ Len(parts) = 2
                    /\ IsIntLiteral(parts[2])
                    /\ ParseInt(parts[2]) >= 1
           days == ParseInt(parts[2])
           username == normalize_username(parts[1])
           user_id == get_user_by_username(db, username)
           new_expire_date == now + timedelta(days)
       IN  IF m.ct # "text"
           THEN /\ last' = [r EXCEPT !.raised = "AttributeError"]
                /\ UNCHANGED <<db, fsm_state, fsm_data>>
           ELSE IF ~valid
           THEN /\ last' = [r EXCEPT !.reply = "reprompt"]
                /\ UNCHANGED <<db, fsm_state, fsm_data>>
           ELSE IF user_id = NoUser
           THEN /\ last' = [r EXCEPT !.reply = "not_found"]
                /\ fsm_state' = clear_state(fsm_state, a)
                /\ fsm_data' = clear_data(fsm_data, a)
                /\ UNCHANGED db
           ELSE /\ db' = update_total_paid(
                             update_expire_date(db, user_id, isoformat(new_expire_date)),
                             user_id, 0)
                /\ last' = [r EXCEPT
                              !.reply = "gift_done",
                              !.days = days,
                              !.selected = {user_id},
                              !.sent = <<Send(user_id, "gift_notice", NoText, delivery = "ok")>>,
                              !.raised = RaisedBy(delivery)]
                /\ IF EscapesBadRequestGuard(delivery)
                   THEN UNCHANGED <<fsm_state, fsm_data>>
                   ELSE /\ fsm_state' = clear_state(fsm_state, a)
                        /\ fsm_data' = clear_data(fsm_data, a)
    /\ UNCHANGED <<now, notifs>>
    /\ UNCHANGED tasks

(***************************************************************************)
(* Broadcast.  Each recipient is sent the text and then a notice, both     *)
(* inside one try / except Exception.                                      *)
(***************************************************************************)
BroadcastDeliveries == {"ok", "text_fails", "notice_fails"}

\* [user for user in users if user[2] and fromisoformat(user[2]) > now]
RECURSIVE ActiveUsers(_, _, _)
ActiveUsers(store, ids, t) ==
    IF ids = <<>> THEN <<>>
    ELSE IF OwnActive(store, Head(ids), t)
    THEN <<Head(ids)>> \o ActiveUsers(store, Tail(ids), t)
    ELSE ActiveUsers(store, Tail(ids), t)

\* fromisoformat raises ValueError inside the list comprehension
SelectionRaises(store) == \E u \in DOMAIN store : store[u].expire_date = BadDate

\* BroadcastSends with the fan-out given up at the first failed recipient
RECURSIVE BroadcastSends_AbortOnFailure(_, _, _)
BroadcastSends_AbortOnFailure(ids, text, delivery) ==
    IF ids = <<>> THEN <<>>
    ELSE LET u == Head(ids)
             first == <<Send(u, "broadcast_text", text, delivery[u] # "text_fails")>>
             second == IF delivery[u] = "text_fails" THEN <<>>
                       ELSE <<Send(u, "broadcast_notice", NoText, delivery[u] = "ok")>>
         IN  IF delivery[u] # "ok" THEN first \o second
             ELSE first \o second \o BroadcastSends_AbortOnFailure(Tail(ids), text, delivery)

RECURSIVE BroadcastSends(_, _, _)
BroadcastSends(ids, text, delivery) ==
    IF ids = <<>> THEN <<>>
    ELSE LET u == Head(ids)
             first == <<Send(u, "broadcast_text", text, delivery[u] # "text_fails")>>
             second == IF delivery[u] = "text_fails" THEN <<>>
                       ELSE <<Send(u, "broadcast_notice", NoText, delivery[u] = "ok")>>
         IN  first \o second \o BroadcastSends(Tail(ids), text, delivery)

RECURSIVE BroadcastSuccess(_, _)
BroadcastSuccess(ids, delivery) ==
    IF ids = <<>> THEN 0
    ELSE (IF delivery[Head(ids)] = "ok" THEN 1 ELSE 0) + BroadcastSuccess(Tail(ids), delivery)

Range(seq) == {seq[i] : i \in 1..Len(seq)}

process_broadcast_text(a, m, delivery) ==
    /\ Idle
    /\ Route(a, m) = "process_broadcast_text"
    /\ LET r == Ran("process_broadcast_text", a, m)
           text == Strip(m.text)
           active_users == ActiveUsers(db, get_all_users(db), now)
           success == BroadcastSuccess(active_users, delivery)
       IN  IF m.ct # "text"
           THEN /\ last' = [r EXCEPT !.raised = "AttributeError"]
                /\ UNCHANGED <<fsm_state, fsm_data>>
           ELSE IF SelectionRaises(db)
           THEN /\ last' = [r EXCEPT !.raised = "ValueError"]
                /\ UNCHANGED <<fsm_state, fsm_data>>
           ELSE /\ last' = [r EXCEPT
                              !.reply = "broadcast_done",
                              !.selected = Range(active_users),
                              !.success = success,
                              !.sent = BroadcastSends(active_users, text, delivery)]
                /\ fsm_state' = clear_state(fsm_state, a)
                /\ fsm_data' = clear_data(fsm_data, a)
    /\ UNCHANGED <<db, now, notifs>>
    /\ UNCHANGED tasks

(***************************************************************************)
(* The daily sweep.  The warning to the user sits in its own try / except  *)
(* Exception; the line to the admin chat is guarded by except ValueError   *)
(* only, so a failure of the transport there leaves the job.               *)
(***************************************************************************)
\* ExpiresTomorrow that also takes a record with two days left
ExpiresTomorrow_OrTheDayAfter(store, u, t) ==
    /\ Parseable(store[u].expire_date)
    /\ DaysBetween(fromisoformat(store[u].expire_date), t) \in {1, 2}

ExpiresTomorrow(store, u, t) ==
    /\ Parseable(store[u].expire_date)
    /\ DaysBetween(fromisoformat(store[u].expire_date), t) = 1

\* The sends of the scan over ids, in order, up to the first failure that
\* leaves the job
RECURSIVE SweepSends(_, _, _, _, _)
SweepSends(store, ids, t, userOk, adminOk) ==
    IF ids = <<>> THEN <<>>
    ELSE LET u == Head(ids)
             warning == IF u # ADMIN_CHAT_ID
                        THEN <<Send(u, "warning", NoText, userOk[u])>> ELSE <<>>
             summary == <<Send(ADMIN_CHAT_ID, "summary", store[u].username, adminOk[u])>>
         IN  IF ~ExpiresTomorrow(store, u, t)
             THEN SweepSends(store, Tail(ids), t, userOk, adminOk)
             ELSE IF ~adminOk[u] THEN warning \o summary
             ELSE warning \o summary \o SweepSends(store, Tail(ids), t, userOk, adminOk)

SweepRaises(store, t, adminOk) ==
    \E u \in DOMAIN store : ExpiresTomorrow(store, u, t) /\ ~adminOk[u]

check_subscriptions_expiring(userOk, adminOk) ==
    /\ Idle
    /\ last' = [Ran("check_subscriptions_expiring", NoUser, TimerEvent) EXCEPT
                  !.selected = {u \in DOMAIN db : ExpiresTomorrow(db, u, now)},
                  !.sent = SweepSends(db, get_all_users(db), now, userOk, adminOk),
                  !.raised = IF SweepRaises(db, now, adminOk)
                             THEN "TelegramForbiddenError" ELSE "None"]
    /\ UNCHANGED <<db, fsm_state, fsm_data, now, notifs>>
    /\ UNCHANGED tasks

(***************************************************************************)
(* Specifications.  Each one runs every handler its actors can reach, one  *)
(* update at a time.                                                       *)
(*                                                                         *)
(* Spec: the admin's workflows on a store that starts empty; user 2        *)
(* registers and pays, and the clock moves.                                *)
(***************************************************************************)
Init == InitWith({EmptyStore})

Next ==
    \/ UpdateHandled
    \/ \E notified \in BOOLEAN : global_error_handler(notified)
    \/ Tick
    \/ \E m \in StartInputs, tg \in TgUsernames(2), notified \in BOOLEAN :
          cmd_start(2, m, tg, notified)
    \/ handle_pay_standard(2)
    \/ handle_pay_custom_amount(2)
    \/ \E m \in AmountInputs : process_user_custom_amount(2, m)
    \/ \E m \in CommandInputs :
          \/ admin_reset_subscription_command(ADMIN_CHAT_ID, m)
          \/ admin_gift_subscription_command(ADMIN_CHAT_ID, m)
          \/ admin_send_message_command(ADMIN_CHAT_ID, m)
          \/ admin_broadcast_command(ADMIN_CHAT_ID, m)
    \/ \E n \in notifs, delivery \in Deliveries :
          handle_admin_accept(ADMIN_CHAT_ID, n, delivery)
    \/ \E n \in notifs, delivery \in Deliveries :
          handle_admin_reject(ADMIN_CHAT_ID, n, delivery)
    \/ \E m \in SendMessageInputs : admin_send_message(ADMIN_CHAT_ID, m)
    \/ handle_send_file_yes(ADMIN_CHAT_ID)
    \/ \E delivery \in Deliveries : handle_send_file_no(ADMIN_CHAT_ID, delivery)
    \/ \E m \in FileInputs, delivery \in Deliveries :
          handle_admin_file(ADMIN_CHAT_ID, m, delivery)
    \/ \E m \in ResetInputs, delivery \in Deliveries :
          process_reset_subscription(ADMIN_CHAT_ID, m, delivery)
    \/ \E m \in GiftInputs, delivery \in Deliveries :
          process_gift_subscription(ADMIN_CHAT_ID, m, delivery)
    \/ \E m \in BroadcastInputs,
          delivery \in [Range(ActiveUsers(db, get_all_users(db), now))
                          -> BroadcastDeliveries] :
          process_broadcast_text(ADMIN_CHAT_ID, m, delivery)

Spec == Init /\ [][Next]_vars

(***************************************************************************)
(* SpecFanout: broadcast and sweep over the rows of earlier runs, as the   *)
(* clock moves and the admin gifts and resets subscriptions.               *)
(***************************************************************************)
InitFanout == InitWith(FamilyStores)

Expiring == {u \in DOMAIN db : ExpiresTomorrow(db, u, now)}

NextFanout ==
    \/ UpdateHandled
    \/ \E notified \in BOOLEAN : global_error_handler(notified)
    \/ Tick
    \/ \E m \in CommandInputs :
          \/ admin_check_users(ADMIN_CHAT_ID, m)
          \/ admin_sum_payments(ADMIN_CHAT_ID, m)
          \/ admin_reset_subscription_command(ADMIN_CHAT_ID, m)
          \/ admin_gift_subscription_command(ADMIN_CHAT_ID, m)
          \/ admin_broadcast_command(ADMIN_CHAT_ID, m)
    \/ \E m \in ResetInputs, delivery \in Deliveries :
          process_reset_subscription(ADMIN_CHAT_ID, m, delivery)
    \/ \E m \in GiftInputs, delivery \in Deliveries :
          process_gift_subscription(ADMIN_CHAT_ID, m, delivery)
    \/ \E m \in BroadcastInputs,
          delivery \in [Range(ActiveUsers(db, get_all_users(db), now))
                          -> BroadcastDeliveries] :
          process_broadcast_text(ADMIN_CHAT_ID, m, delivery)
    \/ \E userOk \in [Expiring -> BOOLEAN], adminOk \in [Expiring -> BOOLEAN] :
          check_subscriptions_expiring(userOk, adminOk)

SpecFanout == InitFanout /\ [][NextFanout]_vars

(***************************************************************************)
(* SpecUser: every event a non-admin actor can send, admin commands and    *)
(* admin buttons included, on an empty store and on rows of earlier runs.  *)
(***************************************************************************)
InitUser == InitWith({EmptyStore} \cup FamilyStores)

NextUser ==
    \/ UpdateHandled
    \/ \E notified \in BOOLEAN : global_error_handler(notified)
    \/ \E m \in StartInputs, tg \in TgUsernames(2), notified \in BOOLEAN :
          cmd_start(2, m, tg, notified)
    \/ \E m \in CheckInputs : cmd_check(2, m)
    \/ handle_check_subscription(2)
    \/ handle_pay_standard(2)
    \/ handle_pay_custom_amount(2)
    \/ \E m \in AmountInputs : process_user_custom_amount(2, m)
    \/ \E m \in CommandInputs :
          \/ admin_check_users(2, m)
          \/ admin_sum_payments(2, m)
          \/ admin_reset_subscription_command(2, m)
          \/ admin_gift_subscription_command(2, m)
          \/ admin_send_message_command(2, m)
          \/ admin_broadcast_command(2, m)
    \/ \E n \in notifs, delivery \in Deliveries : handle_admin_accept(2, n, delivery)
    \/ \E n \in notifs, delivery \in Deliveries : handle_admin_reject(2, n, delivery)
    \/ \E m \in SendMessageInputs : admin_send_message(2, m)
    \/ handle_send_file_yes(2)
    \/ \E delivery \in Deliveries : handle_send_file_no(2, delivery)
    \/ \E m \in FileInputs, delivery \in Deliveries : handle_admin_file(2, m, delivery)

SpecUser == InitUser /\ [][NextUser]_vars

(***************************************************************************)
(* SpecRub: rub_to_days on its own, applied to every amount up to          *)
(* MaxAmount as int() reads it from the text of a message.                 *)
(***************************************************************************)
MaxAmount == 150

InitRub == InitWith({EmptyStore})

ConvertAmount(amount) ==
    /\ Idle
    /\ LET m == TextMessage(IntToStr(amount))
       IN  last' = [Ran("rub_to_days", NoUser, m) EXCEPT
                      !.total = amount,
                      !.days = rub_to_days(ParseInt(Strip(m.text)))]
    /\ UNCHANGED <<db, fsm_state, fsm_data, now, notifs>>
    /\ UNCHANGED tasks

NextRub ==
    \/ UpdateHandled
    \/ \E amount \in 0..MaxAmount : ConvertAmount(amount)

SpecRub == InitRub /\ [][NextRub]_vars

(***************************************************************************)
(* SpecCheck: users 2 and 3 register and ask for their subscription, by    *)
(* command and by button, on an empty store and on rows of earlier runs,   *)
(* as the clock moves.                                                     *)
(***************************************************************************)
InitCheck == InitWith({EmptyStore} \cup FamilyStores)

NextCheck ==
    \/ UpdateHandled
    \/ Tick
    \/ \E a \in UserIds, m \in StartInputs, notified \in BOOLEAN :
          \E tg \in TgUsernames(a) : cmd_start(a, m, tg, notified)
    \/ \E a \in UserIds, m \in CheckInputs : cmd_check(a, m)
    \/ \E a \in UserIds : handle_check_subscription(a)

SpecCheck == InitCheck /\ [][NextCheck]_vars

(***************************************************************************)
(* SpecLifecycle: every operation that touches or scans the store, from an *)
(* empty store: users 2 and 3 register, user 2 checks and pays, the admin  *)
(* resets, gifts, broadcasts and sends messages, and the sweep runs.  The   *)
(* store effects do not depend on how a delivery ends (Spec and SpecFanout *)
(* vary that): here every delivery succeeds.                               *)
(***************************************************************************)
NextLifecycle ==
    \/ UpdateHandled
    \/ \E notified \in BOOLEAN : global_error_handler(notified)
    \/ Tick
    \/ \E a \in UserIds, m \in StartInputs :
          \E tg \in TgUsernames(a) : cmd_start(a, m, tg, TRUE)
    \/ \E m \in CheckInputs : cmd_check(2, m)
    \/ handle_pay_standard(2)
    \/ handle_pay_custom_amount(2)
    \/ \E m \in AmountInputs : process_user_custom_amount(2, m)
    \/ \E m \in CommandInputs :
          \/ admin_reset_subscription_command(ADMIN_CHAT_ID, m)
          \/ admin_gift_subscription_command(ADMIN_CHAT_ID, m)
          \/ admin_broadcast_command(ADMIN_CHAT_ID, m)
    \/ \E n \in notifs : handle_admin_accept(ADMIN_CHAT_ID, n, "ok")
    \/ admin_send_message(ADMIN_CHAT_ID, TextMessage(<<"x">>))
    \/ handle_send_file_no(ADMIN_CHAT_ID, "ok")
    \/ \E m \in ResetInputs : process_reset_subscription(ADMIN_CHAT_ID, m, "ok")
    \/ \E m \in GiftInputs : process_gift_subscription(ADMIN_CHAT_ID, m, "ok")
    \/ \E m \in BroadcastInputs :
          process_broadcast_text(ADMIN_CHAT_ID, m,
              [u \in Range(ActiveUsers(db, get_all_users(db), now)) |-> "ok"])
    \/ check_subscriptions_expiring([u \in Expiring |-> TRUE], [u \in Expiring |-> TRUE])

SpecLifecycle == Init /\ [][NextLifecycle]_vars

(***************************************************************************)
(* SpecConcurrent: the dispatcher starts a task for every update, so the   *)
(* handlers of two updates interleave at their awaits.  The handlers that  *)
(* write the store are followed across their two UPDATEs.  Each UPDATE is  *)
(* one statement, executed and committed on a connection of its own, and   *)
(* is atomic; the awaits lie between them.  A task carries what its        *)
(* handler computed before the first UPDATE: the row it found, the new     *)
(* expire_date and the amount.                                             *)
(***************************************************************************)
MaxTasks == 2

\* user 2 has registered as @a and paid once
PaidStore ==
    update_total_paid(
        update_expire_date(add_user(EmptyStore, 2, <<"a">>), 2, Tomorrow),
        2, COST_PER_MONTH)

InitConcurrent ==
    /\ db = PaidStore
    /\ fsm_state \in
          {[a \in Actors |-> IF a = ADMIN_CHAT_ID THEN s ELSE IF a = 2 THEN u ELSE NoState] :
              s \in {"waiting_for_reset_username", "waiting_for_gift_subscription"},
              u \in {NoState, "waiting_for_custom_amount"}}
    /\ fsm_data = [a \in Actors |-> EmptyData]
    /\ now = 0
    /\ notifs = {}
    /\ last = Ran("idle", NoUser, TimerEvent)
    /\ tasks = <<>>

Task(handler, a, user_id, expire_date, amount) ==
    [handler |-> handler, actor |-> a, user_id |-> user_id,
     expire_date |-> expire_date, amount |-> amount, pc |-> "update_expire_date"]

\* process_reset_subscription up to its first UPDATE
process_reset_subscription_found(a, m) ==
    /\ Len(tasks) < MaxTasks
    /\ Route(a, m) = "process_reset_subscription"
    /\ m.ct = "text"
    /\ LET user_id == get_user_by_username(db, normalize_username(Strip(m.text)))
       IN  /\ user_id # NoUser
           /\ tasks' = Append(tasks, Task("process_reset_subscription", a, user_id, NoDate, 0))
    /\ UNCHANGED <<db, fsm_state, fsm_data, now, notifs, last>>

\* process_gift_subscription up to its first UPDATE
process_gift_subscription_found(a, m) ==
    /\ Len(tasks) < MaxTasks
    /\ Route(a, m) = "process_gift_subscription"
    /\ m.ct = "text"
    /\ LET parts == Split(Strip(m.text))
       IN  /\ Len(parts) = 2
           /\ IsIntLiteral(parts[2])
           /\ ParseInt(parts[2]) >= 1
           /\ LET user_id == get_user_by_username(db, normalize_username(parts[1]))
                  new_expire_date == now + timedelta(ParseInt(parts[2]))
              IN  /\ user_id # NoUser
                  /\ tasks' = Append(tasks, Task("process_gift_subscription", a, user_id,
                                                 isoformat(new_expire_date), 0))
    /\ UNCHANGED <<db, fsm_state, fsm_data, now, notifs, last>>

\* handle_pay_standard up to its first UPDATE
handle_pay_standard_pressed(a) ==
    /\ Len(tasks) < MaxTasks
    /\ LET new_expire_date == now + timedelta(DAYS_PER_MONTH)
       IN  tasks' = Append(tasks, Task("handle_pay_standard", a, a,
                                      isoformat(new_expire_date), COST_PER_MONTH))
    /\ UNCHANGED <<db, fsm_state, fsm_data, now, notifs, last>>

\* process_user_custom_amount up to its first UPDATE
process_user_custom_amount_valid(a, m) ==
    /\ Len(tasks) < MaxTasks
    /\ Route(a, m) = "process_user_custom_amount"
    /\ LET text == Strip(m.text)
       IN  /\ IsIntLiteral(text)
           /\ ParseInt(text) >= 1
           /\ LET new_expire_date == now + timedelta(rub_to_days(ParseInt(text)))
              IN  tasks' = Append(tasks, Task("process_user_custom_amount", a, a,
                                             isoformat(new_expire_date), ParseInt(text)))
    /\ UNCHANGED <<db, fsm_state, fsm_data, now, notifs, last>>

\* await update_expire_date(user_id, ...) of task i
await_update_expire_date(i) ==
    /\ tasks[i].pc = "update_expire_date"
    /\ db' = update_expire_date(db, tasks[i].user_id, tasks[i].expire_date)
    /\ tasks' = [tasks EXCEPT ![i].pc = "update_total_paid"]
    /\ UNCHANGED <<fsm_state, fsm_data, now, notifs, last>>

\* await update_total_paid(user_id, amount) of task i
await_update_total_paid(i) ==
    /\ tasks[i].pc = "update_total_paid"
    /\ db' = update_total_paid(db, tasks[i].user_id, tasks[i].amount)
    /\ tasks' = [tasks EXCEPT ![i].pc = "answer"]
    /\ UNCHANGED <<fsm_state, fsm_data, now, notifs, last>>

\* The rest of the handler of task i: the answers and notices, and
\* state.clear() (handle_pay_standard has none; reset and gift do not reach
\* it when the notice to the user lets an exception out)
task_returns(i, delivery) ==
    /\ tasks[i].pc = "answer"
    /\ tasks' = [tasks EXCEPT ![i].pc = "done"]
    /\ IF \/ tasks[i].handler = "handle_pay_standard"
          \/ /\ tasks[i].handler \in {"process_reset_subscription", "process_gift_subscription"}
             /\ EscapesBadRequestGuard(delivery)
       THEN UNCHANGED <<fsm_state, fsm_data>>
       ELSE /\ fsm_state' = clear_state(fsm_state, tasks[i].actor)
            /\ fsm_data' = clear_data(fsm_data, tasks[i].actor)
    /\ UNCHANGED <<db, now, notifs, last>>

NextConcurrent ==
    \/ Tick
    \/ \E m \in ResetInputs : process_reset_subscription_found(ADMIN_CHAT_ID, m)
    \/ \E m \in GiftInputs : process_gift_subscription_found(ADMIN_CHAT_ID, m)
    \/ handle_pay_standard_pressed(2)
    \/ \E m \in AmountInputs : process_user_custom_amount_valid(2, m)
    \/ \E i \in DOMAIN tasks : await_update_expire_date(i)
    \/ \E i \in DOMAIN tasks : await_update_total_paid(i)
    \/ \E i \in DOMAIN tasks, delivery \in Deliveries : task_returns(i, delivery)

SpecConcurrent == InitConcurrent /\ [][NextConcurrent]_vars

(***************************************************************************)
(* SpecSweep: the cron job of the scheduler fires once a day at the same   *)
(* time of day, over records that nothing changes.  tasks keeps, for every *)
(* run of the job, when it ran and what it sent.                           *)
(***************************************************************************)
MaxSweeps == 4

\* The expire_date of user 2's record lies anywhere in the days the sweeps
\* cover (or is missing or malformed); user 3's is one of a few
SweepStores ==
    {[u \in UserIds |->
        [username |-> IF u = 2 THEN <<"a">> ELSE IdName(3),
         expire_date |-> IF u = 2 THEN e2 ELSE e3,
         total_paid |-> 0,
         parent_user_id |-> NoUser]] :
       e2 \in {NoDate, BadDate} \cup {isoformat(t) : t \in 0..((MaxSweeps + 1) * TicksPerDay)},
       e3 \in {NoDate, isoformat(timedelta(1)), isoformat(timedelta(2) + 1)}}

InitSweep == InitWith(SweepStores)

\* scheduler.add_job(check_subscriptions_expiring, 'cron', hour=14, minute=4):
\* a run of the job, 24 hours after the run before it
cron_fires(userOk, adminOk) ==
    /\ Len(tasks) < MaxSweeps
    /\ tasks # <<>> => now = tasks[Len(tasks)].at + TicksPerDay
    /\ tasks' = Append(tasks,
                    [handler |-> "check_subscriptions_expiring",
                     at |-> now,
                     sent |-> SweepSends(db, get_all_users(db), now, userOk, adminOk)])
    /\ UNCHANGED <<db, fsm_state, fsm_data, now, notifs, last>>

\* The clock moves on to the next day's run
WaitForCron ==
    /\ tasks # <<>>
    /\ Len(tasks) < MaxSweeps
    /\ now < tasks[Len(tasks)].at + TicksPerDay
    /\ now' = now + 1
    /\ UNCHANGED <<db, fsm_state, fsm_data, notifs, last, tasks>>

NextSweep ==
    \/ Tick
    \/ WaitForCron
    \/ \E userOk \in [Expiring -> BOOLEAN], adminOk \in [Expiring -> BOOLEAN] :
          cron_fires(userOk, adminOk)

SpecSweep == InitSweep /\ [][NextSweep]_vars

(***************************************************************************)
(* Properties.                                                             *)
(***************************************************************************)
HandlerRan(op) == last.op = op
FailedSends == {i \in 1..Len(last.sent) : ~last.sent[i].ok}
SendsOf(kind) == {i \in 1..Len(last.sent) : last.sent[i].kind = kind}

\* "<handle> <text>": the handle, and the text after the first whitespace
HandleOf(text) == FirstWord(Strip(text))
BodyOf(text) ==
    LET t == Strip(text)
    IN  LStripChar(SubSeq(t, Len(FirstWord(t)) + 1, Len(t)), Space)

\* C1: after a reset of an existing record (the admin's session was in
\* waiting_for_reset_username and the handle resolved), that record has no
\* expire_date and total_paid = 0, whatever they were before.
C1_ResetClearsExpiryAndTotal ==
    (HandlerRan("process_reset_subscription") /\ last.reply = "reset_done") =>
        LET u == get_user_by_username(db, normalize_username(Strip(last.ev.text)))
        IN  /\ u # NoUser
            /\ db[u].expire_date = NoDate
            /\ db[u].total_paid = 0

\* C2: with the send-message workflow entered by the /send_message command
\* (state waiting_for_send_message, nothing pre-filled), a message
\* "<handle> <text>" whose handle resolves moves the session to the
\* file-choice state with target_user_id the resolved user and message_text
\* the text after the first whitespace; an unknown handle ends the workflow
\* with the session idle.
C2_CommandEntryResolvesHandle ==
    [][ ( /\ Idle
          /\ last'.op = "admin_send_message"
          /\ fsm_data[last'.actor] = EmptyData
          /\ last'.ev.ct = "text"
          /\ Len(Split(last'.ev.text)) >= 2 )
        => LET a == last'.actor
               u == get_user_by_username(db, normalize_username(HandleOf(last'.ev.text)))
           IN  IF u # NoUser
               THEN /\ fsm_state'[a] = "awaiting_file"
                    /\ fsm_data'[a].target_user_id = u
                    /\ fsm_data'[a].message_text = BodyOf(last'.ev.text)
               ELSE fsm_state'[a] = NoState ]_vars

WorkflowCommands ==
    {"/reset_subscription", "/gift_subscription", "/send_message", "/broadcast"}

InitialStateOf(c) ==
    CASE c = "/reset_subscription" -> "waiting_for_reset_username"
      [] c = "/gift_subscription" -> "waiting_for_gift_subscription"
      [] c = "/send_message" -> "waiting_for_send_message"
      [] c = "/broadcast" -> "waiting_for_broadcast_text"

\* C3: a workflow-starting command of the admin sent mid-workflow discards
\* the prior session: afterwards the state is the command's initial state
\* and the data dict is empty.
C3_CommandDiscardsPriorSession ==
    [][ ( /\ Idle
          /\ ~Idle'
          /\ last'.actor = ADMIN_CHAT_ID
          /\ fsm_state[ADMIN_CHAT_ID] # NoState
          /\ last'.ev.kind = "message"
          /\ last'.ev.ct = "text"
          /\ Len(last'.ev.text) = 1
          /\ Head(last'.ev.text) \in WorkflowCommands )
        => /\ fsm_state'[ADMIN_CHAT_ID] = InitialStateOf(Head(last'.ev.text))
           /\ fsm_data'[ADMIN_CHAT_ID] = EmptyData ]_vars

\* C4: in the reset, gift and send-message ("no" button) handlers a failed
\* delivery to the target user does not leave the handler, and the admin's
\* session ends idle.
C4_DeliveryFailureIsCaught ==
    ( /\ last.op \in {"process_reset_subscription", "process_gift_subscription",
                      "handle_send_file_no"}
      /\ FailedSends # {} )
    => /\ last.raised = "None"
       /\ fsm_state[last.actor] = NoState

\* C5: a broadcast sends the text to exactly the users whose subscription
\* is effectively active (their own, or their parent's when their own is
\* not).
C5_BroadcastReachesEffectiveActive ==
    (HandlerRan("process_broadcast_text") /\ last.reply = "broadcast_done") =>
        {last.sent[i].to : i \in SendsOf("broadcast_text")}
            = {u \in DOMAIN db : EffectiveActive(db, u, now)}

\* C6: in a broadcast that got to its fan-out, every selected recipient is
\* sent the text whether or not deliveries to others failed, the reported
\* count is the number of selected recipients minus those with a failed
\* delivery, and the admin's session is cleared.
C6_BroadcastSurvivesFailures ==
    (HandlerRan("process_broadcast_text") /\ last.reply = "broadcast_done") =>
        LET selected == {u \in DOMAIN db : OwnActive(db, u, now)}
            failed == {u \in selected : \E i \in FailedSends : last.sent[i].to = u}
        IN  /\ \A u \in selected :
                  \E i \in SendsOf("broadcast_text") :
                      /\ last.sent[i].to = u
                      /\ last.sent[i].text = Strip(last.ev.text)
            /\ last.success = Cardinality(selected) - Cardinality(failed)
            /\ fsm_state[last.actor] = NoState
            /\ fsm_data[last.actor] = EmptyData

\* C6 witness: a broadcast to at least two recipients in which exactly one
\* delivery failed, reporting total - 1.
C6_Witness ==
    /\ HandlerRan("process_broadcast_text")
    /\ last.reply = "broadcast_done"
    /\ Cardinality(last.selected) >= 2
    /\ Cardinality({last.sent[i].to : i \in FailedSends}) = 1
    /\ last.success = Cardinality(last.selected) - 1
    /\ \A u \in last.selected : \E i \in SendsOf("broadcast_text") : last.sent[i].to = u

\* C7: in a sweep, every record whose day difference is 1 gets its warning
\* (unless it is the admin's) and its summary line, whatever deliveries
\* failed before it in the scan.
C7_SweepSurvivesFailures ==
    HandlerRan("check_subscriptions_expiring") =>
        \A u \in DOMAIN db :
            ExpiresTomorrow(db, u, now) =>
                /\ u # ADMIN_CHAT_ID =>
                      \E i \in SendsOf("warning") : last.sent[i].to = u
                /\ \E i \in SendsOf("summary") : last.sent[i].text = db[u].username

\* C8: the sweep sends the warning for a record exactly when its
\* expire_date parses and lies a floor-truncated 1 day ahead and the user is
\* not the admin, and one summary line for a record exactly when its
\* expire_date parses and lies 1 day ahead.
C8_SweepWarnsExactlyDayOne ==
    HandlerRan("check_subscriptions_expiring") =>
        \A u \in DOMAIN db :
            LET due == /\ Parseable(db[u].expire_date)
                       /\ (fromisoformat(db[u].expire_date) - now) \div TicksPerDay = 1
                warnings == {i \in SendsOf("warning") : last.sent[i].to = u}
                summaries == {i \in SendsOf("summary") : last.sent[i].text = db[u].username}
            IN  /\ Cardinality(warnings) = IF due /\ u # ADMIN_CHAT_ID THEN 1 ELSE 0
                /\ Cardinality(summaries) = IF due THEN 1 ELSE 0

\* The day-floor rule of C8 in the sweeps that no failed admin line cut
\* short.
SweepWarnsExactlyDayOneUnlessCutShort ==
    (HandlerRan("check_subscriptions_expiring") /\ last.raised = "None")
        => C8_SweepWarnsExactlyDayOne

\* C9: an admin command from a non-admin actor, in whatever session state,
\* is answered with the denial and changes neither the actor's session nor
\* any record.
C9_NonAdminCommandIsDenied ==
    [][ ( /\ Idle
          /\ ~Idle'
          /\ last'.actor # ADMIN_CHAT_ID
          /\ last'.ev.kind = "message"
          /\ last'.ev.ct = "text"
          /\ Len(last'.ev.text) = 1
          /\ Head(last'.ev.text) \in AdminCommands )
        => /\ last'.reply = "denied"
           /\ fsm_state' = fsm_state
           /\ fsm_data' = fsm_data
           /\ db' = db ]_vars

\* C10: the session of a non-admin actor is never in an admin-gated state.
C10_NonAdminNeverInAdminState ==
    \A a \in Actors \ {ADMIN_CHAT_ID} : fsm_state[a] \notin AdminStates

\* The session is at the file choice with a target and a text stored
AtFileChoice(a) ==
    /\ fsm_state[a] = "awaiting_file"
    /\ fsm_data[a].target_user_id # NoUser
    /\ fsm_data[a].message_text # NoText

\* C11: from the file-choice state with target_user_id and message_text
\* stored, a "no" press sends exactly one text message carrying
\* message_text to target_user_id and clears the session; a "yes" press
\* sends nothing, keeps target_user_id and message_text and moves the
\* session to the state that waits for the file.
C11_FileChoiceButtons ==
    [][ (Idle /\ ~Idle' /\ AtFileChoice(last'.actor)) =>
          LET a == last'.actor
          IN  /\ last'.op = "handle_send_file_no" =>
                    /\ Len(last'.sent) = 1
                    /\ last'.sent[1].to = fsm_data[a].target_user_id
                    /\ last'.sent[1].kind = "text"
                    /\ last'.sent[1].text = fsm_data[a].message_text
                    /\ fsm_state'[a] = NoState
                    /\ fsm_data'[a] = EmptyData
              /\ last'.op = "handle_send_file_yes" =>
                    /\ last'.sent = <<>>
                    /\ fsm_data'[a] = fsm_data[a]
                    /\ fsm_state'[a] = "awaiting_file_with_file" ]_vars

\* The buttons of C11 whenever the delivery of the "no" press does not
\* leave the handler.
FileChoiceButtonsUnlessRaised ==
    [][ (Idle /\ ~Idle' /\ AtFileChoice(last'.actor) /\ last'.raised = "None") =>
          LET a == last'.actor
          IN  /\ last'.op = "handle_send_file_no" =>
                    /\ Len(last'.sent) = 1
                    /\ last'.sent[1].to = fsm_data[a].target_user_id
                    /\ last'.sent[1].kind = "text"
                    /\ last'.sent[1].text = fsm_data[a].message_text
                    /\ fsm_state'[a] = NoState
                    /\ fsm_data'[a] = EmptyData
              /\ last'.op = "handle_send_file_yes" =>
                    /\ last'.sent = <<>>
                    /\ fsm_data'[a] = fsm_data[a]
                    /\ fsm_state'[a] = "awaiting_file_with_file" ]_vars

\* C12: an attachment (document or photo) received in the state that waits
\* for the file is sent to the stored target_user_id with the stored
\* message_text as caption, and the session is cleared afterwards, whether
\* the delivery succeeded or failed.
C12_AttachmentSentAndSessionCleared ==
    [][ (Idle /\ last'.op = "handle_admin_file") =>
          LET a == last'.actor
          IN  /\ fsm_state[a] = "awaiting_file_with_file"
              /\ last'.ev.ct \in {"document", "photo"}
              /\ fsm_data[a].target_user_id # NoUser
              /\ Len(last'.sent) = 1
              /\ last'.sent[1].to = fsm_data[a].target_user_id
              /\ last'.sent[1].kind = last'.ev.ct
              /\ last'.sent[1].text = fsm_data[a].message_text
              /\ fsm_state'[a] = NoState
              /\ fsm_data'[a] = EmptyData ]_vars

\* C12 witness: an attachment with a stored caption whose delivery failed,
\* and the session is cleared.
C12_Witness ==
    /\ HandlerRan("handle_admin_file")
    /\ Len(last.sent) = 1
    /\ ~last.sent[1].ok
    /\ last.sent[1].text # NoText
    /\ last.sent[1].to = 2
    /\ fsm_state[last.actor] = NoState
    /\ fsm_data[last.actor] = EmptyData

\* "<handle> <days>": exactly two tokens, the second an integer of at least 1
GiftWellFormed(text) ==
    LET parts == Split(Strip(text))
    IN  /\ Len(parts) = 2
        /\ IsIntLiteral(parts[2])
        /\ ParseInt(parts[2]) >= 1

GiftTarget(text) ==
    get_user_by_username(db, normalize_username(Split(Strip(text))[1]))

GiftDays(text) == ParseInt(Split(Strip(text))[2])

\* A text message reaches process_gift_subscription on this step
GiftStep == Idle /\ last'.op = "process_gift_subscription" /\ last'.ev.ct = "text"

\* C13: in the gift state, malformed input (token count other than 2, or
\* days that is not an integer or is less than 1) re-prompts the admin,
\* leaves the session in the gift state with its data as it was, and
\* changes no field of any record.
C13_MalformedGiftReprompts ==
    [][ (GiftStep /\ ~GiftWellFormed(last'.ev.text)) =>
          /\ last'.reply = "reprompt"
          /\ last'.sent = <<>>
          /\ fsm_state[last'.actor] = "waiting_for_gift_subscription"
          /\ fsm_state' = fsm_state
          /\ fsm_data' = fsm_data
          /\ db' = db ]_vars

\* C13 witness: "@A -5" was re-prompted while @a has a record with an
\* expiry, and the admin's session is still in the gift state.
C13_Witness ==
    /\ HandlerRan("process_gift_subscription")
    /\ last.ev.text = <<"@", "A", " ", "-", "5">>
    /\ last.reply = "reprompt"
    /\ get_user_by_username(db, <<"a">>) # NoUser
    /\ db[get_user_by_username(db, <<"a">>)].expire_date # NoDate
    /\ fsm_state[last.actor] = "waiting_for_gift_subscription"

\* The effect of a gift on the store and on the admin's session
GiftApplied ==
    LET a == last'.actor
        u == GiftTarget(last'.ev.text)
    IN  /\ DOMAIN db' = DOMAIN db
        /\ db'[u].expire_date = isoformat(now + timedelta(GiftDays(last'.ev.text)))
        /\ db'[u].total_paid = db[u].total_paid
        /\ db'[u].username = db[u].username
        /\ \A v \in DOMAIN db \ {u} : db'[v] = db[v]
        /\ fsm_state'[a] = NoState

\* C14: in the gift state, "<handle> <positive integer days>" for an
\* existing handle sets that record's expire_date to now + days (replacing
\* the old one), leaves its total_paid unchanged, changes no other record,
\* and returns the session to idle.
C14_GiftReplacesExpiry ==
    [][ ( /\ GiftStep
          /\ GiftWellFormed(last'.ev.text)
          /\ GiftTarget(last'.ev.text) # NoUser ) => GiftApplied ]_vars

\* The gift of C14 whenever the notice to the user does not leave the
\* handler.
GiftReplacesExpiryUnlessRaised ==
    [][ ( /\ GiftStep
          /\ GiftWellFormed(last'.ev.text)
          /\ GiftTarget(last'.ev.text) # NoUser
          /\ last'.raised = "None" ) => GiftApplied ]_vars

\* C15: in the reset and gift states, a well-formed input naming a handle
\* with no record is answered with the not-found message, changes no
\* record, and returns the session to idle.
C15_UnknownHandleAborts ==
    [][ ( /\ Idle
          /\ last'.ev.ct = "text"
          /\ \/ /\ last'.op = "process_reset_subscription"
                /\ get_user_by_username(
                       db, normalize_username(Strip(last'.ev.text))) = NoUser
             \/ /\ last'.op = "process_gift_subscription"
                /\ GiftWellFormed(last'.ev.text)
                /\ GiftTarget(last'.ev.text) = NoUser )
        => /\ last'.reply = "not_found"
           /\ last'.raised = "None"
           /\ db' = db
           /\ fsm_state'[last'.actor] = NoState
           /\ fsm_data'[last'.actor] = EmptyData ]_vars

\* C15 witness: a gift for a handle with no record was answered not-found
\* with other records in the store, and the admin's session is idle.
C15_Witness ==
    /\ HandlerRan("process_gift_subscription")
    /\ last.reply = "not_found"
    /\ DOMAIN db # {}
    /\ fsm_state[last.actor] = NoState
    /\ fsm_data[last.actor] = EmptyData

\* C16: in the custom-amount state, a text that is not a number or is an
\* integer below 1 re-prompts and leaves the session state and the actor's
\* record as they were; a positive integer sets the actor's expire_date to
\* now + rub_to_days(amount), adds exactly amount to total_paid, confirms
\* the payment and clears the session.
C16_CustomAmount ==
    [][ ( /\ Idle
          /\ last'.op = "process_user_custom_amount"
          /\ last'.actor \in DOMAIN db )
        => LET a == last'.actor
               text == Strip(last'.ev.text)
               amount == ParseInt(text)
           IN  IF ~(IsIntLiteral(text) /\ amount >= 1)
               THEN /\ last'.reply = "reprompt"
                    /\ fsm_state[a] = "waiting_for_custom_amount"
                    /\ fsm_state' = fsm_state
                    /\ db' = db
               ELSE /\ last'.reply = "payment_confirmed"
                    /\ db'[a].expire_date
                         = isoformat(now + rub_to_days(amount) * TicksPerDay)
                    /\ db'[a].total_paid = db[a].total_paid + amount
                    /\ \A v \in DOMAIN db \ {a} : db'[v] = db[v]
                    /\ fsm_state'[a] = NoState
                    /\ fsm_data'[a] = EmptyData ]_vars

\* C16 witness: a custom payment of 70 on top of 50 paid before: total_paid
\* is 120, the expiry is 42 days from now and the session is cleared.
C16_Witness ==
    /\ HandlerRan("process_user_custom_amount")
    /\ last.reply = "payment_confirmed"
    /\ last.ev.text = <<"7", "0">>
    /\ last.actor \in DOMAIN db
    /\ db[last.actor].total_paid = COST_PER_MONTH + 70
    /\ db[last.actor].expire_date = isoformat(now + 42 * TicksPerDay)
    /\ fsm_state[last.actor] = NoState

\* The amount paid on a step that confirms a payment
PaidAmount ==
    IF last'.op = "handle_pay_standard" THEN COST_PER_MONTH
    ELSE ParseInt(Strip(last'.ev.text))

\* C17: a payment replaces the expiry and never stacks: after a payment of
\* amount a at time t (standard button or custom amount) the expire_date is
\* t + rub_to_days(a) whatever it was before, also when the previous expiry
\* lay in the future, and total_paid has grown by a.
C17_PaymentsReplaceExpiry ==
    [][ ( /\ Idle
          /\ last'.op \in {"handle_pay_standard", "process_user_custom_amount"}
          /\ last'.reply = "payment_confirmed"
          /\ last'.actor \in DOMAIN db )
        => LET a == last'.actor
               horizon == now + rub_to_days(PaidAmount) * TicksPerDay
           IN  /\ Parseable(db'[a].expire_date)
               /\ fromisoformat(db'[a].expire_date) = horizon
               /\ OwnActive(db, a, now) =>
                      fromisoformat(db'[a].expire_date)
                          # fromisoformat(db[a].expire_date)
                              + rub_to_days(PaidAmount) * TicksPerDay
               /\ db'[a].total_paid - db[a].total_paid = PaidAmount ]_vars

\* C17 witness: the second of two standard payments, made after the clock
\* moved: 100 paid, and the expiry is 30 days from now.
C17_Witness ==
    /\ HandlerRan("handle_pay_standard")
    /\ now > 0
    /\ last.actor \in DOMAIN db
    /\ db[last.actor].total_paid = 2 * COST_PER_MONTH
    /\ db[last.actor].expire_date = isoformat(now + DAYS_PER_MONTH * TicksPerDay)

\* C18: for every non-negative integer amount, rub_to_days(amount) is
\* floor(amount / 50) * 30 + floor((amount mod 50) * 30 / 50); it is 0 for
\* 0, 15 for 25, 29 for 49, 30 for 50 and 60 for 100, and it never rounds
\* up: it is the largest whole number of days not above amount * 30 / 50.
C18_RubToDays ==
    HandlerRan("rub_to_days") =>
        LET amount == last.total
            days == last.days
        IN  /\ days = (amount \div 50) * 30 + ((amount % 50) * 30) \div 50
            /\ days * 50 <= amount * 30
            /\ amount * 30 < (days + 1) * 50
            /\ amount = 0 => days = 0
            /\ amount = 25 => days = 15
            /\ amount = 49 => days = 29
            /\ amount = 50 => days = 30
            /\ amount = 100 => days = 60

\* C18 witness: 49 was converted, to 29 days and not to 30.
C18_Witness ==
    /\ HandlerRan("rub_to_days")
    /\ last.total = 49
    /\ last.days = 29

\* The state a handler's StateFilter asks for
StateFilterOf(op) ==
    CASE op = "admin_send_message" -> "waiting_for_send_message"
      [] op = "handle_admin_file" -> "awaiting_file_with_file"
      [] op = "process_user_custom_amount" -> "waiting_for_custom_amount"
      [] op = "process_reset_subscription" -> "waiting_for_reset_username"
      [] op = "process_gift_subscription" -> "waiting_for_gift_subscription"
      [] op = "process_broadcast_text" -> "waiting_for_broadcast_text"

StateFiltered ==
    {"admin_send_message", "handle_admin_file", "process_user_custom_amount",
     "process_reset_subscription", "process_gift_subscription",
     "process_broadcast_text"}

\* C19: session isolation.  An event handled for one actor changes the
\* session state and session data of no other actor; the state-filtered
\* handler that runs is the one of the actor's own state, and what the
\* send-message workflow delivers is taken from the actor's own data.
C19_SessionIsolation ==
    [][ (Idle /\ ~Idle') =>
          LET a == last'.actor
          IN  /\ \A b \in Actors \ {a} :
                    /\ fsm_state'[b] = fsm_state[b]
                    /\ fsm_data'[b] = fsm_data[b]
              /\ last'.op \in StateFiltered => fsm_state[a] = StateFilterOf(last'.op)
              /\ (last'.op \in {"handle_send_file_no", "handle_admin_file"}
                    /\ last'.sent # <<>>) =>
                    /\ last'.sent[1].to = fsm_data[a].target_user_id
                    /\ last'.sent[1].text = fsm_data[a].message_text ]_vars

\* C19 witness: the admin's message moved the admin's session on while
\* user 2 stays in the custom-amount state with empty data.
C19_Witness ==
    /\ HandlerRan("admin_send_message")
    /\ last.actor = ADMIN_CHAT_ID
    /\ fsm_state[ADMIN_CHAT_ID] = "awaiting_file"
    /\ fsm_data[ADMIN_CHAT_ID].target_user_id = 2
    /\ fsm_state[2] = "waiting_for_custom_amount"
    /\ fsm_data[2] = EmptyData

\* Some record carries an expire_date that does not parse
HasUnparseableDate == \E u \in DOMAIN db : db[u].expire_date = BadDate

\* C20: a stored expire_date that does not parse is treated as inactive or
\* skipped wherever it is used (subscription check, user listing, broadcast
\* selection, sweep): no ValueError leaves the handler, and the other
\* records of the scan are still processed.
C20_UnparseableDateIsSkipped ==
    ( /\ HasUnparseableDate
      /\ last.op \in {"cmd_check", "handle_check_subscription", "admin_check_users",
                      "process_broadcast_text", "check_subscriptions_expiring"}
      /\ last.ev.ct \in {"text", "cron", "check_subscription"} )
    => /\ last.raised # "ValueError"
       /\ last.op = "process_broadcast_text" =>
             /\ last.reply = "broadcast_done"
             /\ last.selected = {u \in DOMAIN db : OwnActive(db, u, now)}

\* The unparseable date of C20 at its points of use other than the
\* broadcast.
UnparseableDateIsSkippedOutsideBroadcast ==
    ( /\ HasUnparseableDate
      /\ last.op \in {"cmd_check", "handle_check_subscription", "admin_check_users",
                      "check_subscriptions_expiring"} )
    => /\ last.raised # "ValueError"
       /\ last.reply = "user_list" =>
             last.selected = {u \in DOMAIN db : OwnActive(db, u, now)}
       /\ last.op = "check_subscriptions_expiring" =>
             \A u \in DOMAIN db :
                 (ExpiresTomorrow(db, u, now) /\ u # ADMIN_CHAT_ID
                    /\ \A i \in FailedSends : last.sent[i].kind # "summary")
                 => \E i \in SendsOf("warning") : last.sent[i].to = u

\* The record has a parseable expire_date in the future
ActiveRecord(u) ==
    /\ u \in DOMAIN db
    /\ db[u].expire_date.kind = "iso"
    /\ db[u].expire_date.t > now

RemainingDays(u) == (db[u].expire_date.t - now) \div TicksPerDay

\* C21: the subscription check follows one level of parents.  A user whose
\* own subscription is active is told so with their own remaining days; a
\* child with an inactive subscription and an active parent is reported
\* active with the parent's remaining days; with no parent, or with an
\* inactive parent, the child is reported inactive, also when the parent's
\* own parent is active.
C21_CheckFollowsOneParent ==
    ( /\ last.op \in {"cmd_check", "handle_check_subscription"}
      /\ last.actor \in DOMAIN db
      /\ last.actor # ADMIN_CHAT_ID )
    => LET u == last.actor
           p == db[u].parent_user_id
       IN  /\ ActiveRecord(u) =>
                 last.reply = "active" /\ last.days = RemainingDays(u)
           /\ (~ActiveRecord(u) /\ p # NoUser /\ ActiveRecord(p)) =>
                 last.reply = "active_via_parent" /\ last.days = RemainingDays(p)
           /\ (~ActiveRecord(u) /\ p = NoUser) => last.reply = "inactive"
           /\ (~ActiveRecord(u) /\ p # NoUser /\ ~ActiveRecord(p)) =>
                 last.reply = "inactive"

\* C21 witness: user 3 asked; their own subscription and their parent's are
\* inactive, the parent's parent is active, and the answer is "inactive".
C21_Witness ==
    /\ last.op \in {"cmd_check", "handle_check_subscription"}
    /\ last.actor = 3
    /\ 3 \in DOMAIN db
    /\ ~ActiveRecord(3)
    /\ db[3].parent_user_id = 2
    /\ ~ActiveRecord(2)
    /\ ActiveRecord(db[2].parent_user_id)
    /\ last.reply = "inactive"

\* The step is an admin reset of the record of u
ResetOf(u) ==
    /\ last'.op = "process_reset_subscription"
    /\ last'.reply = "reset_done"
    /\ u \in last'.selected

\* C22: total_paid of a record is never negative and never decreases from
\* one state to the next, except in a step that is an admin reset of that
\* record, after which it is zero.
C22_TotalPaidMonotoneUnlessReset ==
    [][ \A u \in DOMAIN db :
          /\ u \in DOMAIN db'
          /\ db'[u].total_paid >= 0
          /\ IF ResetOf(u)
             THEN db'[u].total_paid = 0
             ELSE db'[u].total_paid >= db[u].total_paid ]_vars

\* total_paid of a record is never negative and never decreases, on any
\* step at all.
TotalPaidNeverDecreases ==
    [][ \A u \in DOMAIN db :
          /\ u \in DOMAIN db'
          /\ db'[u].total_paid >= 0
          /\ db'[u].total_paid >= db[u].total_paid ]_vars

\* The operations of the subscription policy
PolicyOperations ==
    {"handle_pay_standard", "process_user_custom_amount",
     "process_gift_subscription", "process_reset_subscription"}

\* The username a connection request names, as the accept button reads it
RequestedUsername(request) == Lower(RegexHandle(request))

C24_EscapedExceptionIsReported ==
    /\ [][Escaped =>
            /\ last'.op = "global_error_handler"
            /\ last'.reply = last.raised
            /\ last'.raised = "None"
            /\ Len(last'.sent) = 1
            /\ last'.sent[1].to = ADMIN_CHAT_ID
            /\ last'.sent[1].kind = "error_report"
            /\ UNCHANGED <<db, fsm_state, fsm_data>>]_vars
    /\ [](last.op = "global_error_handler" => ENABLED UpdateHandled)
    /\ [](Idle => \A a \in Actors : \E m \in CheckInputs : ENABLED cmd_check(a, m))

C24_Witness ==
    /\ last.op = "global_error_handler"
    /\ last.actor = ADMIN_CHAT_ID
    /\ last.reply = "TelegramForbiddenError"
    /\ last.sent[1].ok

\* C25: an accept press that resolves the request's handle stores the
\* resolved record's user_id as target_user_id and opens the send-message
\* state; the admin's next text message in that state is stored whole as
\* message_text, target_user_id stays as it was, and the session moves to
\* the file-choice state.
C25_AcceptPrefillsTarget ==
    [][/\ (Idle /\ last'.op = "handle_admin_accept" /\ last'.reply = "enter_message") =>
            /\ fsm_data'[last'.actor].target_user_id =
                   get_user_by_username(db, Lower(RegexHandle(last'.ev.text)))
            /\ fsm_data'[last'.actor].target_user_id \in DOMAIN db
            /\ fsm_data'[last'.actor].action = "send_message"
            /\ fsm_state'[last'.actor] = "waiting_for_send_message"
       /\ (/\ Idle
           /\ last'.op = "admin_send_message"
           /\ fsm_data[last'.actor].target_user_id # NoUser
           /\ last'.ev.ct = "text"
           /\ last'.ev.text # NoText) =>
            /\ fsm_data'[last'.actor].message_text = last'.ev.text
            /\ fsm_data'[last'.actor].target_user_id = fsm_data[last'.actor].target_user_id
            /\ fsm_state'[last'.actor] = "awaiting_file"]_vars

C25_Witness ==
    /\ last.op = "admin_send_message"
    /\ last.reply = "ask_file"
    /\ last.ev.text = <<"@", "A", " ", "1">>
    /\ fsm_state[ADMIN_CHAT_ID] = "awaiting_file"
    /\ fsm_data[ADMIN_CHAT_ID].target_user_id = 2
    /\ fsm_data[ADMIN_CHAT_ID].message_text = <<"@", "A", " ", "1">>

\* C26: the "no" button never delivers a text of an earlier send-message
\* workflow to the target of a later one.  While the session waits for the
\* message of a workflow that an accept press has just opened, that
\* workflow has set a target and no text yet, so a "no" press in that state
\* delivers no stored text.
C26_NoStaleTextToLaterTarget ==
    [][(/\ Idle
        /\ last'.op = "handle_send_file_no"
        /\ fsm_state[last'.actor] = "waiting_for_send_message") =>
           \A i \in DOMAIN last'.sent : last'.sent[i].text = NoText]_vars

\* C27: a "yes" or "no" press of the file choice that arrives while the
\* actor's session is in any state other than the file-choice state sends
\* nothing and leaves the actor's session state and data as they were.
C27_FileChoiceOnlyInItsState ==
    [][(/\ Idle
        /\ last'.op \in {"handle_send_file_yes", "handle_send_file_no"}
        /\ fsm_state[last'.actor] # "awaiting_file") =>
           /\ last'.sent = <<>>
           /\ fsm_state' = fsm_state
           /\ fsm_data' = fsm_data]_vars

\* C28: an accept press on the request produced by user U's /start stores
\* U's user_id as target_user_id in the admin's session and sends the
\* approval to U, also when U's normalized username is the one stored in
\* another user's record.
C28_AcceptTargetsRequester ==
    [][(Idle /\ last'.op = "handle_admin_accept") =>
           /\ last'.reply = "enter_message"
           /\ fsm_data'[last'.actor].target_user_id = last'.ev.src
           /\ Len(last'.sent) = 1
           /\ last'.sent[1].to = last'.ev.src]_vars

\* The same for a request whose /start created the requester's record: the
\* record of the requester carries the handle of the notification
AcceptTargetsRequesterUnlessRejected ==
    [][(/\ Idle
        /\ last'.op = "handle_admin_accept"
        /\ last'.ev.src \in DOMAIN db
        /\ db[last'.ev.src].username = Lower(RegexHandle(last'.ev.text))) =>
           /\ last'.reply = "enter_message"
           /\ fsm_data'[last'.actor].target_user_id = last'.ev.src
           /\ Len(last'.sent) = 1
           /\ last'.sent[1].to = last'.ev.src]_vars

\* The orders in which n tasks can run one after the other
Perms(n) == {p \in [1..n -> 1..n] : \A i, j \in 1..n : p[i] = p[j] => i = j}

\* The two UPDATEs of a task with no other task in between
RunAlone(store, t) ==
    update_total_paid(update_expire_date(store, t.user_id, t.expire_date),
                      t.user_id, t.amount)

\* The store after the first k tasks of the order p have run alone
RECURSIVE RunInOrder(_, _, _)
RunInOrder(store, p, k) ==
    IF k = 0 THEN store ELSE RunAlone(RunInOrder(store, p, k - 1), tasks[p[k]])

BothUpdatesDone(t) == t.pc \in {"answer", "done"}

RECURSIVE AddedBy(_)
AddedBy(k) ==
    IF k = 0 THEN 0
    ELSE AddedBy(k - 1) + (IF BothUpdatesDone(tasks[k]) THEN tasks[k].amount ELSE 0)

\* C29: when the handlers of concurrent updates on one record (an admin
\* reset or gift, payments of the user) have interleaved at the awaits
\* between their two UPDATEs and all have written, the record's expire_date
\* and total_paid are those of running the same handlers one after the
\* other in some order; and at every moment total_paid is the paid total at
\* the start plus the amount of every task whose second UPDATE has run, so
\* no payment's amount is lost.
C29_ConcurrentUpdatesSerializable ==
    /\ (tasks # <<>> /\ \A i \in DOMAIN tasks : BothUpdatesDone(tasks[i])) =>
           \E p \in Perms(Len(tasks)) : db = RunInOrder(PaidStore, p, Len(tasks))
    /\ db[2].total_paid = PaidStore[2].total_paid + AddedBy(Len(tasks))

C29_Witness ==
    /\ Len(tasks) = 2
    /\ tasks[1].handler = "process_reset_subscription"
    /\ tasks[2].handler = "process_user_custom_amount"
    /\ tasks[1].pc = "done"
    /\ tasks[2].pc = "done"
    /\ db[2].expire_date = tasks[2].expire_date
    /\ db[2].total_paid = PaidStore[2].total_paid + tasks[2].amount

\* The sends of the runs of the sweep so far, as <<run, position>>
WarningsTo(u) ==
    {<<i, j>> \in (DOMAIN tasks) \X (1..(2 * Cardinality(DOMAIN db))) :
        /\ j \in DOMAIN tasks[i].sent
        /\ tasks[i].sent[j].kind = "warning"
        /\ tasks[i].sent[j].to = u}

SummaryLinesFor(u) ==
    {<<i, j>> \in (DOMAIN tasks) \X (1..(2 * Cardinality(DOMAIN db))) :
        /\ j \in DOMAIN tasks[i].sent
        /\ tasks[i].sent[j].kind = "summary"
        /\ tasks[i].sent[j].to = ADMIN_CHAT_ID
        /\ tasks[i].sent[j].text = db[u].username}

\* C30: over sweeps run exactly 24 hours apart on a record whose
\* expire_date does not change, the user is sent the expiry warning by at
\* most one sweep and the admin chat at most one summary line for the
\* record, and the sweep that sends them is the one at which at least 24
\* and less than 48 hours remain.
C30_WarnedAtMostOnce ==
    \A u \in DOMAIN db :
        /\ Cardinality(WarningsTo(u)) <= 1
        /\ Cardinality(SummaryLinesFor(u)) <= 1
        /\ \A s \in WarningsTo(u) \cup SummaryLinesFor(u) :
              /\ Parseable(db[u].expire_date)
              /\ fromisoformat(db[u].expire_date) - tasks[s[1]].at >= TicksPerDay
              /\ fromisoformat(db[u].expire_date) - tasks[s[1]].at < 2 * TicksPerDay

C30_Witness ==
    /\ Len(tasks) >= 3
    /\ \E j \in DOMAIN tasks[2].sent : <<2, j>> \in WarningsTo(2)
    /\ \E j \in DOMAIN tasks[2].sent : <<2, j>> \in SummaryLinesFor(2)
    /\ Cardinality(WarningsTo(2)) = 1
    /\ Cardinality(SummaryLinesFor(2)) = 1

====
